---- MODULE Spec2Model ----
(***************************************************************************)
(* Model of the Barion MCP server: the two transport clients               *)
(* (BarionClient, WalletClient), the response formatter, the error         *)
(* formatter and the twelve tool handlers.                                 *)
(*                                                                         *)
(* Texts.  A JavaScript string is modelled as a sequence of pieces.  A     *)
(* piece [s |-> w, n |-> k, lit |-> b] stands for the first k characters   *)
(* of the text named by w: a literal (lit) is the whole of the string w,   *)
(* and the filler "x*" is an unbounded run of one character, so that texts *)
(* of tens of thousands of characters stay small values.  Concatenation is *)
(* \o, String.length is TextLen, String.substring(0, k) is Substring and   *)
(* String.includes is Includes, which looks for the needle in the literal  *)
(* pieces.                                                                 *)
(*                                                                         *)
(* JavaScript values.  An object is a record; a property that is           *)
(* undefined is a field that is not in the DOMAIN of the record.           *)
(***************************************************************************)
EXTENDS Integers, Sequences, FiniteSets, TLC

VARIABLES
    proc,       \* the process: its options, its progress through main, the
                \* tool catalog of the server and what it wrote to stderr
    env,        \* the environment setting both clients were constructed with
    pc,         \* pc[i]: position of invocation i in its tool handler
    tool,       \* tool[i]: the tool invoked
    args,       \* args[i]: the arguments of the invocation
    sent,       \* sent[i]: the HTTP requests issued so far, in order
    got,        \* got[i]: what fetch produced for each of them, in order
    outcomes,   \* outcomes[i]: what each request() call returned or threw
    call,       \* call[i]: what the client method returned or threw
    formatted,  \* formatted[i]: what formatResponse returned or threw
    result,     \* result[i]: the value the handler returned
    text,       \* a text under truncation (pure-function specification)
    passes      \* number of times truncateIfNeeded was applied to it

vars == <<proc, env, pc, tool, args, sent, got, outcomes, call, formatted, result,
          text, passes>>

-----------------------------------------------------------------------------
(* Bounds of the model *)

\* longest Errors list of an upstream body
MaxErrors == 2
\* longest Accounts list of an upstream body
MaxAccounts == 2
\* number of characters of an oversized upstream field
BigBody == 30000
\* how many times in a row the truncation is applied to one text
MaxPasses == 3
\* longest Transactions or UserHistory list of an upstream body
MaxEntries == 2

\* the marker words of an error message given to formatBarionError
MaxMarkers == 2

\* longest list given to formatWalletStatement on its own
MaxListed == 12

-----------------------------------------------------------------------------
(* Texts *)

Lit(s) == IF s = "" THEN <<>> ELSE <<[s |-> s, n |-> Len(s), lit |-> TRUE]>>

\* `${k}` for a number k
Num(k) == Lit(ToString(k))

\* one character outside ASCII, named by its code point
Glyph(code) == <<[s |-> code, n |-> 1, lit |-> FALSE]>>

\* the three backquotes of a code fence
Fence == <<[s |-> "U+0060 U+0060 U+0060", n |-> 3, lit |-> FALSE]>>

\* a run of k filler characters
Fill(k) == IF k <= 0 THEN <<>> ELSE <<[s |-> "x*", n |-> k, lit |-> FALSE]>>

\* String.length: the lengths of the pieces, added up by halves
RECURSIVE TextLen(_)
TextLen(t) ==
    IF Len(t) = 0 THEN 0
    ELSE IF Len(t) = 1 THEN t[1].n
    ELSE LET h == Len(t) \div 2
         IN  TextLen(SubSeq(t, 1, h)) + TextLen(SubSeq(t, h + 1, Len(t)))

\* String.prototype.substring(0, k): a negative k is taken as 0.  The
\* result is the pieces that fit whole and the head of the next one
Substring(t, k) ==
    IF k <= 0 THEN <<>>
    ELSE IF TextLen(t) <= k THEN t
    ELSE LET whole == CHOOSE m \in 0..(Len(t) - 1) :
                         /\ TextLen(SubSeq(t, 1, m)) <= k
                         /\ TextLen(SubSeq(t, 1, m + 1)) > k
             rest == k - TextLen(SubSeq(t, 1, whole))
         IN  SubSeq(t, 1, whole)
             \o (IF rest = 0 THEN <<>>
                 ELSE <<[s |-> t[whole + 1].s, n |-> rest, lit |-> FALSE]>>)

\* array.join(sep) of a list of texts, joined by halves
RECURSIVE Join(_, _)
Join(ts, sep) ==
    IF Len(ts) = 0 THEN <<>>
    ELSE IF Len(ts) = 1 THEN ts[1]
    ELSE LET h == Len(ts) \div 2
         IN  Join(SubSeq(ts, 1, h), sep) \o Lit(sep)
             \o Join(SubSeq(ts, h + 1, Len(ts)), sep)

\* the words of a text: the names of its pieces, in order
Words(t) == [k \in 1..Len(t) |-> t[k].s]

-----------------------------------------------------------------------------
(* response-formatter.ts: truncation *)

CHARACTER_LIMIT == 25000

truncateIfNeeded_CutAtLimit(t, limit) ==
    IF TextLen(t) <= limit
    THEN t
    ELSE Substring(t, limit)
         \o Lit("\n\n[... Output truncated. Total length: ")
         \o Num(TextLen(t))
         \o Lit(" characters. Showing first ")
         \o Num(limit - 200)
         \o Lit(" characters ...]")

truncateIfNeeded_BelowLimit(t, limit) ==
    IF TextLen(t) < limit
    THEN t
    ELSE Substring(t, limit - 200)
         \o Lit("\n\n[... Output truncated. Total length: ")
         \o Num(TextLen(t))
         \o Lit(" characters. Showing first ")
         \o Num(limit - 200)
         \o Lit(" characters ...]")

truncateIfNeeded(t, limit) ==
    IF TextLen(t) <= limit
    THEN t
    ELSE Substring(t, limit - 200)
         \o Lit("\n\n[... Output truncated. Total length: ")
         \o Num(TextLen(t))
         \o Lit(" characters. Showing first ")
         \o Num(limit - 200)
         \o Lit(" characters ...]")

-----------------------------------------------------------------------------
(* JavaScript objects *)

Has(o, f) == f \in DOMAIN o

\* an object without properties
NoFields == [f \in {} |-> ""]

\* { ...a, ...b }: the properties of b replace those of a
Spread(a, b) == b @@ a

\* the lists of at most n different elements of S
SeqUpTo(S, n) ==
    UNION { {l \in [1..k -> S] : \A a, b \in 1..k : l[a] = l[b] => a = b}
              : k \in 0..n }

-----------------------------------------------------------------------------
(* What the upstream can answer *)

\* entries of an upstream Errors list; every property is optional
\* (interface BarionError)
ErrorEntries ==
    { [ErrorCode |-> "ModelValidation", Title |-> "Invalid", Description |-> "bad field"],
      [ErrorCode |-> "InsufficientFunds", Description |-> "balance too low"],
      [ErrorCode |-> ""] }

ErrorLists == SeqUpTo(ErrorEntries, MaxErrors)

\* wallet accounts (interface WalletAccount); Extra is the number of
\* characters of an oversized property of the entry
AccountEntries ==
    { [Id |-> "acc-1", Owner |-> "a@x.hu", Balance |-> 100, Currency |-> "EUR"],
      [Id |-> "acc-2", Owner |-> "a@x.hu", Balance |-> 0, Currency |-> "HUF"],
      [Id |-> "acc-3", Balance |-> 7, Currency |-> "EUR", Extra |-> BigBody] }

\* statement entries (interface Statement); a list entry can be JSON null
NullEntry == [null |-> TRUE]

IsNull(v) == Has(v, "null")

StatementEntries ==
    { [TransactionId |-> "t-1", Currency |-> "EUR", Amount |-> 10,
       TransactionTime |-> "2025-01-05", Comment |-> "rent", Type |-> "Transfer"],
      [Amount |-> -5],
      NullEntry }

\* user history items (interface UserHistoryItem)
HistoryEntries ==
    { [Id |-> "h-1", Type |-> "Payment", HappenedAtUtc |-> "2025-01-05",
       Amount |-> -20, Currency |-> "HUF", Description |-> "shop"],
      [Id |-> "h-2", Type |-> "Transfer", HappenedAtUtc |-> "2025-01-04",
       Amount |-> 3, Currency |-> "EUR"] }

\* payment state bodies (interface PaymentStateResponse)
PaymentBodies ==
    { [PaymentId |-> "p-1", Status |-> st, PaymentType |-> "Immediate",
       Total |-> 100, Currency |-> "EUR", CreatedAt |-> "2025-01-05"]
        : st \in {"Succeeded", "Prepared", "Failed", "Canceled"} }
    \cup { [PaymentId |-> "p-1", Extra |-> BigBody], NoFields,
           [PaymentId |-> "p-2", Status |-> "Reserved", GatewayUrl |-> "https://gw",
            Transactions |-> <<[TransactionId |-> "t-1", Status |-> "Reserved",
                                Total |-> 100, Payee |-> "shop@x.hu"]>>] }

\* bodies of the mutating operations
SuccessBodies ==
    { [IsSuccessful |-> TRUE, PaymentId |-> "p-1", Status |-> "Succeeded",
       TransactionId |-> "t-1"],
      [IsSuccessful |-> TRUE, TransactionId |-> "t-1", Extra |-> BigBody],
      NoFields }

\* the JSON objects an endpoint answers with when it reports no error
Payloads(endpoint) ==
    CASE endpoint = "/v2/accounts" ->
           { [Accounts |-> l] : l \in SeqUpTo(AccountEntries, MaxAccounts) }
           \cup {NoFields}
      [] endpoint = "/v3/userhistory/gethistory" ->
           { [Transactions |-> l] : l \in SeqUpTo(StatementEntries, MaxEntries) }
           \cup { [UserHistory |-> l] : l \in SeqUpTo(HistoryEntries, MaxEntries) }
           \cup {NoFields}
      [] endpoint = "/v2/Payment/GetPaymentState" -> PaymentBodies
      [] OTHER -> SuccessBodies

\* the body of a response: a JSON object, or a text that is not JSON
JsonBody(o) == [parses |-> TRUE, json |-> o]

RawBody(t) == [parses |-> FALSE, raw |-> t]

RawBodies ==
    { RawBody(<<>>), RawBody(Lit("transaction") \o Lit(" ") \o Lit("unknown")),
      RawBody(Lit("<html>") \o Fill(BigBody)) }

OkStatus == {200, 201}

FailStatus == {400, 401, 404, 500}

StatusText(status) ==
    CASE status = 200 -> "OK"
      [] status = 201 -> "Created"
      [] status = 400 -> "Bad Request"
      [] status = 401 -> "Unauthorized"
      [] status = 404 -> "Not Found"
      [] status = 500 -> "Internal Server Error"
      [] OTHER -> ""

Response(status, body) ==
    [kind |-> "response", status |-> status, statusText |-> StatusText(status),
     body |-> body]

\* fetch rejects: no response arrives
Rejected == [kind |-> "rejected", message |-> Lit("fetch failed")]

\* a body reporting errors: the payload with an Errors property
WithErrors(o, errs) == Spread(o, [Errors |-> errs])

\* everything fetch can produce for a request to the endpoint: a rejection,
\* bodies that are not JSON, bodies with an Errors list under a 2xx and under
\* a non-2xx status, and the payloads of the endpoint
Responses(endpoint) ==
    {Rejected}
    \cup { Response(st, b) : st \in {200, 404, 500}, b \in RawBodies }
    \cup { Response(st, JsonBody(WithErrors(NoFields, errs)))
             : st \in {200, 400}, errs \in ErrorLists }
    \cup { Response(st, JsonBody(WithErrors(NoFields, <<e>>)))
             : st \in (OkStatus \cup FailStatus) \ {200, 400}, e \in ErrorEntries }
    \cup { Response(200, JsonBody(o)) : o \in Payloads(endpoint) }
    \cup { Response(st, JsonBody(NoFields)) : st \in {201, 401, 404} }
    \cup { Response(200, JsonBody(WithErrors(o, <<>>))) : o \in Payloads(endpoint) }

-----------------------------------------------------------------------------
(* Serialized JSON *)

\* the properties of the upstream objects, in the order they are written
FieldOrder ==
    << "IsSuccessful", "PaymentId", "Id", "TransactionId", "Owner", "Status",
       "PaymentType", "Type", "Balance", "Amount", "Total", "Currency",
       "CreatedAt", "TransactionTime", "HappenedAtUtc", "Comment",
       "Description", "Payee", "GatewayUrl", "ErrorCode", "Title", "Extra",
       "Accounts", "Transactions", "UserHistory", "Errors" >>

ListFields == {"Errors", "Accounts", "Transactions", "UserHistory"}

NumberFields == {"Balance", "Amount", "Total"}

BooleanFields == {"IsSuccessful"}

\* a run of k spaces
Spaces(k) == IF k <= 0 THEN <<>> ELSE <<[s |-> " *", n |-> k, lit |-> FALSE]>>

\* the line break and indentation JSON.stringify(v, null, 2) writes at a
\* nesting depth; nothing when the value is serialized without indentation
Break(pretty, depth) == IF pretty THEN Lit("\n") \o Spaces(2 * depth) ELSE <<>>

RECURSIVE JsonObject(_, _, _)
RECURSIVE JsonArray(_, _, _)

JsonValue(f, v, pretty, depth) ==
    IF f \in ListFields THEN JsonArray(v, pretty, depth)
    ELSE IF f \in NumberFields THEN Num(v)
    ELSE IF f \in BooleanFields THEN Lit(IF v THEN "true" ELSE "false")
    ELSE IF f = "Extra" THEN Lit("\"") \o Fill(v) \o Lit("\"")
    ELSE Lit("\"") \o Lit(v) \o Lit("\"")

JsonObject(o, pretty, depth) ==
    IF IsNull(o) THEN Lit("null")
    ELSE IF DOMAIN o = {} THEN Lit("{}")
    ELSE LET IsProperty(f) == Has(o, f)
             fs == SelectSeq(FieldOrder, IsProperty)
             Property(f) ==
                    Break(pretty, depth + 1)
                 \o Lit("\"") \o Lit(f) \o Lit("\"")
                 \o Lit(IF pretty THEN ": " ELSE ":")
                 \o JsonValue(f, o[f], pretty, depth + 1)
         IN  Lit("{") \o Join([k \in 1..Len(fs) |-> Property(fs[k])], ",")
             \o Break(pretty, depth) \o Lit("}")

JsonArray(l, pretty, depth) ==
    IF l = <<>> THEN Lit("[]")
    ELSE LET Item(k) == Break(pretty, depth + 1) \o JsonObject(l[k], pretty, depth + 1)
         IN  Lit("[") \o Join([k \in 1..Len(l) |-> Item(k)], ",")
             \o Break(pretty, depth) \o Lit("]")

\* JSON.stringify(data, null, 2).  isArray tells an array from an object:
\* the empty sequence and the record without fields are one TLA+ value
Stringify(data, isArray) ==
    IF isArray THEN JsonArray(data, TRUE, 0) ELSE JsonObject(data, TRUE, 0)

\* response.text(): the body as the upstream wrote it
BodyText(b) == IF b.parses THEN JsonObject(b.json, FALSE, 0) ELSE b.raw

-----------------------------------------------------------------------------
(* Outcome of a call: a returned value or a thrown Error *)

Return(v) == [threw |-> FALSE, value |-> v]

Throw(msg) == [threw |-> TRUE, message |-> msg]

\* `${o.f}`: an undefined property prints as "undefined"
Prop(o, f) == IF Has(o, f) THEN o[f] ELSE "undefined"

\* o.f is truthy (a string property)
Truthy(o, f) == Has(o, f) /\ o[f] # ""

-----------------------------------------------------------------------------
(* barion-client.ts, wallet-client.ts: construction *)

POSKEY == "pos-key-0123456789"

API_KEY == "api-key-0123456789"

Environments == {"test", "prod"}

BaseUrl(environment) ==
    IF environment = "prod" THEN "https://api.barion.com"
    ELSE "https://api.test.barion.com"

\* String(v) of a request parameter: numbers print in decimal
NumericParams == {"Year", "Month", "Limit"}

QueryString(params) ==
    [k \in DOMAIN params |->
        IF k \in NumericParams THEN ToString(params[k]) ELSE params[k]]

-----------------------------------------------------------------------------
(* BarionClient.request *)

BarionFetch_NoKeyOnGet(endpoint, data, method) ==
    IF method = "GET"
    THEN [client |-> "payment", method |-> "GET", endpoint |-> endpoint,
          url |-> BaseUrl(env) \o endpoint,
          query |-> QueryString(data), headers |-> NoFields]
    ELSE [client |-> "payment", method |-> "POST", endpoint |-> endpoint,
          url |-> BaseUrl(env) \o endpoint,
          body |-> Spread([POSKey |-> POSKEY], data),
          headers |-> ("Content-Type" :> "application/json")]

\* the request handed to fetch
BarionFetch(endpoint, data, method) ==
    LET params == Spread([POSKey |-> POSKEY], data)
    IN  IF method = "GET"
        THEN [client |-> "payment", method |-> "GET", endpoint |-> endpoint,
              url |-> BaseUrl(env) \o endpoint,
              query |-> QueryString(params), headers |-> NoFields]
        ELSE [client |-> "payment", method |-> "POST", endpoint |-> endpoint,
              url |-> BaseUrl(env) \o endpoint,
              body |-> params,
              headers |-> ("Content-Type" :> "application/json")]

BarionErrorText_NoDescription(e) ==
    Lit(Prop(e, "ErrorCode")) \o Lit(": ") \o Lit(Prop(e, "Title"))

\* `${error.ErrorCode}: ${error.Title} - ${error.Description}`
BarionErrorText(e) ==
    Lit(Prop(e, "ErrorCode")) \o Lit(": ") \o Lit(Prop(e, "Title"))
    \o Lit(" - ") \o Lit(Prop(e, "Description"))

HttpErrorMessage(r) ==
    Lit("HTTP " \o ToString(r.status)) \o Lit(": ") \o Lit(r.statusText)
    \o Lit(" - ") \o BodyText(r.body)

\* response.json() rejects on a body that is not JSON
JsonSyntaxError == Lit("Unexpected token") \o Lit(" in JSON")

BarionRequest_ErrorsFirst(r) ==
    IF r.kind = "rejected" THEN Throw(r.message)
    ELSE IF r.body.parses /\ Has(r.body.json, "Errors")
            /\ Len(r.body.json.Errors) > 0
    THEN Throw(Lit("Barion API Error:") \o Lit(" ")
               \o Join([k \in 1..Len(r.body.json.Errors) |->
                          BarionErrorText(r.body.json.Errors[k])], ", "))
    ELSE IF r.status \notin 200..299 THEN Throw(HttpErrorMessage(r))
    ELSE IF ~r.body.parses THEN Throw(JsonSyntaxError)
    ELSE Return(r.body.json)

\* what request() does with the outcome of fetch
BarionRequest(r) ==
    IF r.kind = "rejected" THEN Throw(r.message)
    ELSE IF r.status \notin 200..299 THEN Throw(HttpErrorMessage(r))
    ELSE IF ~r.body.parses THEN Throw(JsonSyntaxError)
    ELSE IF Has(r.body.json, "Errors") /\ Len(r.body.json.Errors) > 0
    THEN Throw(Lit("Barion API Error:") \o Lit(" ")
               \o Join([k \in 1..Len(r.body.json.Errors) |->
                          BarionErrorText(r.body.json.Errors[k])], ", "))
    ELSE Return(r.body.json)

-----------------------------------------------------------------------------
(* WalletClient.request *)

WalletFetch(endpoint, data, method) ==
    IF method = "POST"
    THEN [client |-> "wallet", method |-> "POST", endpoint |-> endpoint,
          url |-> BaseUrl(env) \o endpoint,
          body |-> data,
          headers |-> ("X-API-Key" :> API_KEY
                       @@ "Content-Type" :> "application/json")]
    ELSE [client |-> "wallet", method |-> "GET", endpoint |-> endpoint,
          url |-> BaseUrl(env) \o endpoint,
          query |-> QueryString(data),
          headers |-> ("X-API-Key" :> API_KEY)]

\* `${e.ErrorCode || 'Error'}: ${e.Title || e.Description || e}`
WalletErrorText(e) ==
    Lit(IF Truthy(e, "ErrorCode") THEN e.ErrorCode ELSE "Error")
    \o Lit(": ")
    \o Lit(IF Truthy(e, "Title") THEN e.Title
           ELSE IF Truthy(e, "Description") THEN e.Description
           ELSE "[object Object]")

WalletRequest_ErrorsIgnored(r) ==
    IF r.kind = "rejected" THEN Throw(r.message)
    ELSE IF r.status \notin 200..299 THEN Throw(HttpErrorMessage(r))
    ELSE IF ~r.body.parses THEN Throw(JsonSyntaxError)
    ELSE Return(r.body.json)

WalletRequest(r) ==
    IF r.kind = "rejected" THEN Throw(r.message)
    ELSE IF r.status \notin 200..299 THEN Throw(HttpErrorMessage(r))
    ELSE IF ~r.body.parses THEN Throw(JsonSyntaxError)
    ELSE IF Has(r.body.json, "Errors") /\ Len(r.body.json.Errors) > 0
    THEN Throw(Lit("Barion Wallet API Error:") \o Lit(" ")
               \o Join([k \in 1..Len(r.body.json.Errors) |->
                          WalletErrorText(r.body.json.Errors[k])], ", "))
    ELSE Return(r.body.json)

\* request() of the client a request was issued by
Request(client, r) ==
    IF client = "payment" THEN BarionRequest(r) ELSE WalletRequest(r)

-----------------------------------------------------------------------------
(* response-formatter.ts: the summary formatters *)

\* `${o.f || d}` for a string property
StrOr(o, f, d) == Lit(IF Truthy(o, f) THEN o[f] ELSE d)

\* `${o.f || 0}` for a number property
NumOr0(o, f) == Num(IF Has(o, f) THEN o[f] ELSE 0)

\* reading a property of null throws a TypeError
NullAccess == Lit("Cannot read properties of null")

AnyNull(l) == \E k \in 1..Len(l) : IsNull(l[k])

Min(a, b) == IF a <= b THEN a ELSE b

formatPaymentState_FailedOrCanceled(data, detail) ==
    Return(
           Lit("Payment ") \o StrOr(data, "PaymentId", "N/A")
        \o Lit("\nStatus: ") \o StrOr(data, "Status", "Unknown")
        \o Lit("\nType: ") \o StrOr(data, "PaymentType", "N/A")
        \o Lit("\nAmount: ") \o NumOr0(data, "Total") \o Lit(" ")
        \o StrOr(data, "Currency", "")
        \o Lit("\nCreated: ") \o StrOr(data, "CreatedAt", "N/A")
        \o Lit("\n")
        \o (IF Has(data, "Status") /\ data.Status = "Succeeded"
            THEN Glyph("U+2713") \o Lit(" Payment completed successfully") ELSE <<>>)
        \o Lit("\n")
        \o (IF Has(data, "Status") /\ data.Status = "Prepared"
            THEN Glyph("U+23F3") \o Lit(" Waiting for customer to complete payment") ELSE <<>>)
        \o Lit("\n")
        \o (IF Has(data, "Status") /\ data.Status \in {"Failed", "Canceled"}
            THEN Glyph("U+2717") \o Lit(" Payment failed") ELSE <<>>))

formatPaymentState(data, detail) ==
    IF detail = "concise"
    THEN Return(
           Lit("Payment ") \o StrOr(data, "PaymentId", "N/A")
        \o Lit("\nStatus: ") \o StrOr(data, "Status", "Unknown")
        \o Lit("\nType: ") \o StrOr(data, "PaymentType", "N/A")
        \o Lit("\nAmount: ") \o NumOr0(data, "Total") \o Lit(" ")
        \o StrOr(data, "Currency", "")
        \o Lit("\nCreated: ") \o StrOr(data, "CreatedAt", "N/A")
        \o Lit("\n")
        \o (IF Has(data, "Status") /\ data.Status = "Succeeded"
            THEN Glyph("U+2713") \o Lit(" Payment completed successfully") ELSE <<>>)
        \o Lit("\n")
        \o (IF Has(data, "Status") /\ data.Status = "Prepared"
            THEN Glyph("U+23F3") \o Lit(" Waiting for customer to complete payment") ELSE <<>>)
        \o Lit("\n")
        \o (IF Has(data, "Status") /\ data.Status = "Failed"
            THEN Glyph("U+2717") \o Lit(" Payment failed") ELSE <<>>))
    ELSE
      LET Transaction(t, idx) ==
                 Lit("**Transaction ") \o Num(idx) \o Lit(":**\n")
              \o Lit("- ID: ") \o StrOr(t, "TransactionId", "N/A") \o Lit("\n")
              \o Lit("- Status: ") \o StrOr(t, "Status", "N/A") \o Lit("\n")
              \o Lit("- Amount: ") \o NumOr0(t, "Total") \o Lit(" ")
              \o StrOr(data, "Currency", "") \o Lit("\n")
              \o Lit("- Payee: ") \o StrOr(t, "Payee", "N/A") \o Lit("\n\n")
          Error(e, idx) ==
                 Lit("- ") \o StrOr(e, "Title", "Error") \o Lit(": ")
              \o StrOr(e, "Description", "") \o Lit("\n")
          hasTransactions ==
              Has(data, "Transactions") /\ Len(data.Transactions) > 0
          hasErrors == Has(data, "Errors") /\ Len(data.Errors) > 0
      IN  IF (hasTransactions /\ AnyNull(data.Transactions))
             \/ (hasErrors /\ AnyNull(data.Errors))
          THEN Throw(NullAccess)
          ELSE Return(
                 Lit("## Payment Details\n\n")
              \o Lit("**Payment ID:** ") \o StrOr(data, "PaymentId", "N/A") \o Lit("\n")
              \o Lit("**Status:** ") \o StrOr(data, "Status", "Unknown") \o Lit("\n")
              \o Lit("**Type:** ") \o StrOr(data, "PaymentType", "N/A") \o Lit("\n")
              \o Lit("**Currency:** ") \o StrOr(data, "Currency", "N/A") \o Lit("\n")
              \o Lit("**Total Amount:** ") \o NumOr0(data, "Total") \o Lit("\n")
              \o Lit("**Created:** ") \o StrOr(data, "CreatedAt", "N/A") \o Lit("\n")
              \o (IF Truthy(data, "GatewayUrl")
                  THEN Lit("**Gateway URL:** ") \o Lit(data.GatewayUrl) \o Lit("\n")
                  ELSE <<>>)
              \o (IF hasTransactions
                  THEN Lit("\n### Transactions\n\n")
                       \o Join([k \in 1..Len(data.Transactions) |-> Transaction(data.Transactions[k], k)], "")
                  ELSE <<>>)
              \o (IF hasErrors
                  THEN Lit("\n### Errors\n\n")
                       \o Join([k \in 1..Len(data.Errors) |-> Error(data.Errors[k], k)], "")
                  ELSE <<>>))

formatWalletAccounts(accounts, detail) ==
    LET Concise(acc, idx) ==
               StrOr(acc, "Currency", "N/A") \o Lit(": ")
            \o NumOr0(acc, "Balance") \o Lit("\n")
        Detailed(acc, idx) ==
               Lit("### Account ") \o Num(idx) \o Lit("\n")
            \o Lit("- **Currency:** ") \o StrOr(acc, "Currency", "N/A") \o Lit("\n")
            \o Lit("- **Balance:** ") \o NumOr0(acc, "Balance") \o Lit("\n")
            \o Lit("- **Account ID:** ") \o StrOr(acc, "Id", "N/A") \o Lit("\n")
            \o Lit("- **Owner:** ") \o StrOr(acc, "Owner", "N/A") \o Lit("\n\n")
    IN  IF AnyNull(accounts) THEN Throw(NullAccess)
        ELSE IF detail = "concise"
        THEN IF Len(accounts) = 0
             THEN Return(Lit("No wallet accounts found"))
             ELSE Return(Lit("Wallet Balances:\n")
                         \o Join([k \in 1..Len(accounts) |-> Concise(accounts[k], k)], ""))
        ELSE IF Len(accounts) = 0
             THEN Return(Lit("## Wallet Accounts\n\nNo accounts found."))
             ELSE Return(Lit("## Wallet Accounts (") \o Num(Len(accounts))
                         \o Lit(" total)\n\n")
                         \o Join([k \in 1..Len(accounts) |-> Detailed(accounts[k], k)], ""))

\* t.Amount >= 0 ? `+${t.Amount}` : `${t.Amount}`
SignedAmount(t) ==
    IF ~Has(t, "Amount") THEN Lit("undefined")
    ELSE IF t.Amount >= 0 THEN Lit("+") \o Num(t.Amount)
    ELSE Num(t.Amount)

formatWalletStatement_MoreFromTen(transactions, detail) ==
    LET Concise(t, idx) ==
               StrOr(t, "TransactionTime", "N/A") \o Lit(": ")
            \o SignedAmount(t) \o Lit(" ") \o StrOr(t, "Currency", "")
            \o Lit(" - ") \o StrOr(t, "Type", "N/A") \o Lit("\n")
        Detailed(t, idx) ==
               Lit("### Transaction ") \o Num(idx) \o Lit("\n")
            \o Lit("- **Date/Time:** ") \o StrOr(t, "TransactionTime", "N/A") \o Lit("\n")
            \o Lit("- **Type:** ") \o StrOr(t, "Type", "N/A") \o Lit("\n")
            \o Lit("- **Amount:** ") \o SignedAmount(t) \o Lit(" ")
            \o StrOr(t, "Currency", "") \o Lit("\n")
            \o Lit("- **Comment:** ") \o StrOr(t, "Comment", "N/A") \o Lit("\n")
            \o Lit("- **Transaction ID:** ") \o StrOr(t, "TransactionId", "N/A")
            \o Lit("\n\n")
        showCount == Min(10, Len(transactions))
    IN  IF detail = "concise"
        THEN IF Len(transactions) = 0
             THEN Return(Lit("No transactions found for this period"))
             ELSE IF AnyNull(SubSeq(transactions, 1, showCount))
             THEN Throw(NullAccess)
             ELSE Return(
                    Num(Len(transactions)) \o Lit(" transactions found\n\n")
                 \o Join([k \in 1..showCount |-> Concise(transactions[k], k)], "")
                 \o (IF Len(transactions) >= 10
                     THEN Lit("\n... and ") \o Num(Len(transactions) - 10)
                          \o Lit(" more transactions")
                     ELSE <<>>))
        ELSE IF Len(transactions) = 0
             THEN Return(Lit("## Wallet Statement\n\nNo transactions found for this period."))
             ELSE IF AnyNull(transactions) THEN Throw(NullAccess)
             ELSE Return(
                    Lit("## Wallet Statement (") \o Num(Len(transactions))
                 \o Lit(" transactions)\n\n")
                 \o Join([k \in 1..Len(transactions) |-> Detailed(transactions[k], k)], ""))

formatWalletStatement(transactions, detail) ==
    LET Concise(t, idx) ==
               StrOr(t, "TransactionTime", "N/A") \o Lit(": ")
            \o SignedAmount(t) \o Lit(" ") \o StrOr(t, "Currency", "")
            \o Lit(" - ") \o StrOr(t, "Type", "N/A") \o Lit("\n")
        Detailed(t, idx) ==
               Lit("### Transaction ") \o Num(idx) \o Lit("\n")
            \o Lit("- **Date/Time:** ") \o StrOr(t, "TransactionTime", "N/A") \o Lit("\n")
            \o Lit("- **Type:** ") \o StrOr(t, "Type", "N/A") \o Lit("\n")
            \o Lit("- **Amount:** ") \o SignedAmount(t) \o Lit(" ")
            \o StrOr(t, "Currency", "") \o Lit("\n")
            \o Lit("- **Comment:** ") \o StrOr(t, "Comment", "N/A") \o Lit("\n")
            \o Lit("- **Transaction ID:** ") \o StrOr(t, "TransactionId", "N/A")
            \o Lit("\n\n")
        showCount == Min(10, Len(transactions))
    IN  IF detail = "concise"
        THEN IF Len(transactions) = 0
             THEN Return(Lit("No transactions found for this period"))
             ELSE IF AnyNull(SubSeq(transactions, 1, showCount))
             THEN Throw(NullAccess)
             ELSE Return(
                    Num(Len(transactions)) \o Lit(" transactions found\n\n")
                 \o Join([k \in 1..showCount |-> Concise(transactions[k], k)], "")
                 \o (IF Len(transactions) > 10
                     THEN Lit("\n... and ") \o Num(Len(transactions) - 10)
                          \o Lit(" more transactions")
                     ELSE <<>>))
        ELSE IF Len(transactions) = 0
             THEN Return(Lit("## Wallet Statement\n\nNo transactions found for this period."))
             ELSE IF AnyNull(transactions) THEN Throw(NullAccess)
             ELSE Return(
                    Lit("## Wallet Statement (") \o Num(Len(transactions))
                 \o Lit(" transactions)\n\n")
                 \o Join([k \in 1..Len(transactions) |-> Detailed(transactions[k], k)], ""))

formatSuccessResponse(data, operationName, detail) ==
    IF detail = "concise"
    THEN Return(Glyph("U+2713") \o Lit(" ") \o Lit(operationName) \o Lit(" completed successfully"))
    ELSE Return(
           Lit("## ") \o Lit(operationName) \o Lit(" - Success\n\n")
        \o (IF Truthy(data, "PaymentId")
            THEN Lit("**Payment ID:** ") \o Lit(data.PaymentId) \o Lit("\n") ELSE <<>>)
        \o (IF Truthy(data, "Status")
            THEN Lit("**Status:** ") \o Lit(data.Status) \o Lit("\n") ELSE <<>>)
        \o (IF Truthy(data, "TransactionId")
            THEN Lit("**Transaction ID:** ") \o Lit(data.TransactionId) \o Lit("\n")
            ELSE <<>>)
        \o Lit("\n### Full Response\n\n") \o Fence \o Lit("json\n")
        \o Stringify(data, FALSE) \o Lit("\n") \o Fence)

-----------------------------------------------------------------------------
(* response-formatter.ts: formatResponse *)

\* the formatter argument of formatResponse, called on the data
ApplyFormatter(formatter, data, detail) ==
    CASE formatter.name = "formatPaymentState" -> formatPaymentState(data, detail)
      [] formatter.name = "formatWalletAccounts" -> formatWalletAccounts(data, detail)
      [] formatter.name = "formatWalletStatement" -> formatWalletStatement(data, detail)
      [] formatter.name = "formatSuccessResponse" ->
           formatSuccessResponse(data, formatter.operationName, detail)

formatResponse_FormatterFirst(data, isArray, format, detail, formatter) ==
    IF formatter.name # "none" /\ (format # "json" \/ detail = "concise")
    THEN LET summary == ApplyFormatter(formatter, data, detail)
         IN  IF summary.threw THEN summary
             ELSE Return(truncateIfNeeded(summary.value, CHARACTER_LIMIT))
    ELSE Return(truncateIfNeeded(Stringify(data, isArray), CHARACTER_LIMIT))

formatResponse(data, isArray, format, detail, formatter) ==
    IF format = "json"
    THEN Return(truncateIfNeeded(Stringify(data, isArray), CHARACTER_LIMIT))
    ELSE IF formatter.name # "none"
    THEN LET summary == ApplyFormatter(formatter, data, detail)
         IN  IF summary.threw THEN summary
             ELSE Return(truncateIfNeeded(summary.value, CHARACTER_LIMIT))
    ELSE Return(truncateIfNeeded(Stringify(data, isArray), CHARACTER_LIMIT))

-----------------------------------------------------------------------------
(* The tools and their arguments *)

PaymentTools ==
    {"start_payment", "get_payment_state", "finish_reservation",
     "refund_payment", "capture_payment", "cancel_authorization"}

WalletTools ==
    {"get_wallet_accounts", "get_wallet_balance", "get_wallet_statement",
     "withdraw_to_bank", "get_user_history", "send_money"}

Tools == PaymentTools \cup WalletTools

ClientOf(t) == IF t \in PaymentTools THEN "payment" ELSE "wallet"

\* an optional argument: left out, or one of the values
Optional(f, S) == {NoFields} \cup {f :> v : v \in S}

\* format and detail always have a value: the schema defaults them
Presentation ==
    [format : {"json", "markdown"}, detail : {"concise", "detailed"}]

SomeTransactions == <<[transactionId |-> "t-1", total |-> 40]>>

SomePaymentTransactions ==
    << [posTransactionId |-> "pos-1", payee |-> "shop@x.hu", total |-> 100,
        items |-> << [name |-> "book", description |-> "a book", quantity |-> 1,
                      unit |-> "piece", unitPrice |-> 100, itemTotal |-> 100] >>] >>

\* the optional arguments of get_user_history: none, each alone, an empty
\* text beside a currency, all
HistoryQueries ==
    { NoFields,
      [lastRequestTime |-> "2025-10-08T12:30:22.955Z"],
      [lastVisibleItemId |-> ""],
      [lastVisibleItemId |-> "h-1"],
      [lastVisibleItemId |-> "", currency |-> "HUF"],
      [limit |-> 20],
      [currency |-> "HUF"],
      [lastRequestTime |-> "2025-10-08T12:30:22.955Z", lastVisibleItemId |-> "h-1",
       limit |-> 20, currency |-> "HUF"] }

\* the arguments a tool is invoked with, as the schema lets them through
ToolArgs(t) ==
    CASE t = "get_wallet_accounts" -> Presentation
      [] t = "get_wallet_balance" ->
           { p @@ c : p \in Presentation, c \in Optional("currency", {"EUR", "USD"}) }
      [] t = "get_wallet_statement" ->
           { p @@ c @@ [year |-> 2025, month |-> 1]
               : p \in Presentation, c \in Optional("currency", {"EUR"}) }
      [] t = "withdraw_to_bank" ->
           { p @@ c @@ [currency |-> "EUR", amount |-> 50,
                        accountNumber |-> "DE89370400440532013000",
                        accountHolderName |-> "A B", swift |-> "DEUTDEFFXXX"]
               : p \in Presentation, c \in Optional("comment", {"", "rent"}) }
      [] t = "get_user_history" ->
           { p @@ q : p \in Presentation, q \in HistoryQueries }
      [] t = "send_money" ->
           { p @@ src @@ [recipientEmail |-> "b@x.hu", currency |-> cur,
                          amount |-> 5, comment |-> "hi"]
               : p \in Presentation, cur \in {"EUR", "USD"},
                 src \in Optional("sourceAccountId", {"", "acc-9"}) }
      [] t = "start_payment" ->
           { p @@ [paymentType |-> "Immediate", currency |-> "EUR",
                   transactions |-> SomePaymentTransactions,
                   redirectUrl |-> "https://shop/return",
                   callbackUrl |-> "https://shop/callback"]
               : p \in Presentation }
      [] t = "get_payment_state" ->
           { p @@ [paymentId |-> "p-1"] : p \in Presentation }
      [] t = "finish_reservation" ->
           { p @@ [paymentId |-> "p-1", transactions |-> SomeTransactions]
               : p \in Presentation }
      [] t = "refund_payment" ->
           { p @@ c @@ [paymentId |-> "p-1", transactionId |-> "t-1", amount |-> 40]
               : p \in Presentation, c \in Optional("comment", {"", "broken"}) }
      [] t = "capture_payment" ->
           { p @@ [paymentId |-> "p-1", transactions |-> SomeTransactions]
               : p \in Presentation }
      [] t = "cancel_authorization" ->
           { p @@ [paymentId |-> "p-1"] : p \in Presentation }

\* `PAY-${Date.now()}-${Math.random()...}`: an identifier the call makes up
GeneratedIds == {"PAY-1700000000000-k3j9x0q1z", "PAY-1700000000001-a8s7d6f5g"}

\* the tools registered with annotations.readOnlyHint: true
ReadOnlyTools ==
    {"get_payment_state", "get_wallet_accounts", "get_wallet_balance",
     "get_wallet_statement", "get_user_history"}

\* the operation name the handler gives the error formatter
OperationName(t) ==
    CASE t = "get_wallet_accounts" -> "Get Wallet Accounts"
      [] t = "get_wallet_balance" -> "Get Wallet Balance"
      [] t = "get_wallet_statement" -> "Get Wallet Statement"
      [] t = "withdraw_to_bank" -> "Withdraw to Bank"
      [] t = "get_user_history" -> "Get User History"
      [] t = "send_money" -> "Send Money"
      [] t = "start_payment" -> "Start Payment"
      [] t = "get_payment_state" -> "Get Payment State"
      [] t = "finish_reservation" -> "Finish Reservation"
      [] t = "refund_payment" -> "Refund Payment"
      [] t = "capture_payment" -> "Capture Payment"
      [] t = "cancel_authorization" -> "Cancel Authorization"

\* the formatter the handler gives formatResponse
FormatterOf(t) ==
    LET Success(name) == [name |-> "formatSuccessResponse", operationName |-> name]
    IN  CASE t \in {"get_wallet_accounts", "get_wallet_balance"} ->
               [name |-> "formatWalletAccounts"]
          [] t \in {"get_wallet_statement", "get_user_history"} ->
               [name |-> "formatWalletStatement"]
          [] t = "get_payment_state" -> [name |-> "formatPaymentState"]
          [] t = "withdraw_to_bank" -> Success("Withdrawal Initiated")
          [] t = "send_money" -> Success("Money Sent")
          [] t = "start_payment" -> Success("Payment Created")
          [] t = "finish_reservation" -> Success("Reservation Captured")
          [] t = "refund_payment" -> Success("Refund Processed")
          [] t = "capture_payment" -> Success("Payment Captured")
          [] t = "cancel_authorization" -> Success("Authorization Cancelled")

\* the operations of WalletClient that return a list
ReturnsArray(t) ==
    t \in {"get_wallet_accounts", "get_wallet_balance", "get_wallet_statement",
           "get_user_history"}

-----------------------------------------------------------------------------
(* BarionClient: the request each operation issues *)

startPayment(request, generated) ==
    LET paymentRequestId ==
            IF Truthy(request, "paymentRequestId") THEN request.paymentRequestId
            ELSE generated
        Item(i) ==
            [Name |-> i.name, Description |-> i.description,
             Quantity |-> i.quantity, Unit |-> i.unit,
             UnitPrice |-> i.unitPrice, ItemTotal |-> i.itemTotal]
        Transaction(t) ==
            [POSTransactionId |-> t.posTransactionId, Payee |-> t.payee,
             Total |-> t.total,
             Items |-> [k \in 1..Len(t.items) |-> Item(t.items[k])]]
    IN  BarionFetch("/v2/Payment/Start",
            [PaymentType |-> request.paymentType,
             PaymentRequestId |-> paymentRequestId,
             Currency |-> request.currency,
             FundingSources |-> <<"All">>,
             Transactions |-> [k \in 1..Len(request.transactions) |->
                                  Transaction(request.transactions[k])],
             RedirectUrl |-> request.redirectUrl,
             CallbackUrl |-> request.callbackUrl,
             GuestCheckOut |-> TRUE,
             Locale |-> "en-US"],
            "POST")

getPaymentState_Posted(paymentId) ==
    BarionFetch("/v2/Payment/GetPaymentState", [PaymentId |-> paymentId], "POST")

getPaymentState(paymentId) ==
    BarionFetch("/v2/Payment/GetPaymentState", [PaymentId |-> paymentId], "GET")

\* the Transactions of finishReservation and capturePayment
TransactionTotals(transactions) ==
    [k \in 1..Len(transactions) |->
        [TransactionId |-> transactions[k].transactionId,
         Total |-> transactions[k].total]]

finishReservation(request) ==
    BarionFetch("/v2/Payment/FinishReservation",
        [PaymentId |-> request.paymentId,
         Transactions |-> TransactionTotals(request.transactions)],
        "POST")

refundPayment_NoComment(request) ==
    BarionFetch("/v2/Payment/Refund",
        [PaymentId |-> request.paymentId,
         TransactionId |-> request.transactionId,
         AmountToRefund |-> request.amount,
         Comment |-> ""],
        "POST")

refundPayment(request) ==
    BarionFetch("/v2/Payment/Refund",
        [PaymentId |-> request.paymentId,
         TransactionId |-> request.transactionId,
         AmountToRefund |-> request.amount,
         Comment |-> IF Truthy(request, "comment") THEN request.comment ELSE ""],
        "POST")

capturePayment(request) ==
    BarionFetch("/v2/Payment/Capture",
        [PaymentId |-> request.paymentId,
         Transactions |-> TransactionTotals(request.transactions)],
        "POST")

cancelAuthorization(request) ==
    BarionFetch("/v2/Payment/CancelAuthorization",
        [PaymentId |-> request.paymentId], "POST")

-----------------------------------------------------------------------------
(* WalletClient: the request each operation issues, and what it returns *)

getAccounts == WalletFetch("/v2/accounts", NoFields, "GET")

\* result.Accounts || []
getAccounts_Result(json) == IF Has(json, "Accounts") THEN json.Accounts ELSE <<>>

\* acc.Currency === currency
HasCurrency(acc, currency) == Has(acc, "Currency") /\ acc.Currency = currency

\* accounts.filter(acc => acc.Currency === currency)
RECURSIVE FilterCurrency(_, _)
FilterCurrency(accounts, currency) ==
    IF accounts = <<>> THEN <<>>
    ELSE (IF HasCurrency(Head(accounts), currency) THEN <<Head(accounts)>>
          ELSE <<>>)
         \o FilterCurrency(Tail(accounts), currency)

\* getBalance(currency); currency is "" when the argument was left out
getBalance_Result(json, currency) ==
    IF currency # "" THEN FilterCurrency(getAccounts_Result(json), currency)
    ELSE getAccounts_Result(json)

getStatement(params) ==
    WalletFetch("/v3/userhistory/gethistory",
        [Year |-> params.year, Month |-> params.month]
        @@ (IF Truthy(params, "currency") THEN [Currency |-> params.currency]
            ELSE NoFields),
        "GET")

getStatement_Result_AnyList(json) ==
    IF Has(json, "Transactions") THEN json.Transactions
    ELSE IF Has(json, "UserHistory") THEN json.UserHistory
    ELSE <<>>

getStatement_Result(json) ==
    IF Has(json, "Transactions") THEN json.Transactions ELSE <<>>

getUserHistory_Params(params) ==
    (IF Truthy(params, "lastRequestTime")
     THEN [LastRequestTime |-> params.lastRequestTime] ELSE NoFields)
    @@ (IF Truthy(params, "lastVisibleItemId")
        THEN [LastVisibleItemId |-> params.lastVisibleItemId] ELSE NoFields)
    @@ (IF Has(params, "limit") THEN [Limit |-> Min(params.limit, 20)] ELSE NoFields)
    @@ (IF Truthy(params, "currency") THEN [Currency |-> params.currency]
        ELSE NoFields)

\* Return(the request), or Throw when no parameter was given
getUserHistory(params) ==
    IF DOMAIN getUserHistory_Params(params) = {}
    THEN Throw(Lit("At least one parameter (lastRequestTime, lastVisibleItemId, "
                   \o "or currency) must be provided"))
    ELSE Return(WalletFetch("/v3/userhistory/gethistory",
                            getUserHistory_Params(params), "GET"))

\* a UserHistory item as a Statement; a property the item lacks stays undefined
HistoryAsStatement(item) ==
    LET from == [TransactionId |-> "Id", Currency |-> "Currency",
                 Amount |-> "Amount", TransactionTime |-> "HappenedAtUtc",
                 Type |-> "Type"]
    IN  [f \in {g \in DOMAIN from : Has(item, from[g])} |-> item[from[f]]]
        @@ [Comment |-> IF Truthy(item, "Description") THEN item.Description ELSE ""]

getUserHistory_Result_NewestLast(json) ==
    IF ~Has(json, "UserHistory") \/ Len(json.UserHistory) = 0 THEN Return(<<>>)
    ELSE IF AnyNull(json.UserHistory) THEN Throw(NullAccess)
    ELSE Return([k \in 1..Len(json.UserHistory) |->
                    HistoryAsStatement(json.UserHistory[Len(json.UserHistory) + 1 - k])])

getUserHistory_Result(json) ==
    IF ~Has(json, "UserHistory") \/ Len(json.UserHistory) = 0 THEN Return(<<>>)
    ELSE IF AnyNull(json.UserHistory) THEN Throw(NullAccess)
    ELSE Return([k \in 1..Len(json.UserHistory) |->
                    HistoryAsStatement(json.UserHistory[k])])

withdraw(params) ==
    WalletFetch("/v3/withdraw/banktransfer",
        [Currency |-> params.currency,
         Amount |-> params.amount,
         BankAccount |-> [AccountNumber |-> params.accountNumber,
                          AccountHolderName |-> params.accountHolderName,
                          Swift |-> params.swift],
         Comment |-> IF Truthy(params, "comment") THEN params.comment ELSE ""],
        "POST")

\* accounts.find(acc => acc.Currency === currency): the index of the first
\* account in the currency, 0 when there is none
Find_Last(accounts, currency) ==
    LET matches == {k \in 1..Len(accounts) : HasCurrency(accounts[k], currency)}
    IN  IF matches = {} THEN 0
        ELSE CHOOSE k \in matches : \A m \in matches : m <= k

Find_OrFirst(accounts, currency) ==
    LET matches == {k \in 1..Len(accounts) : HasCurrency(accounts[k], currency)}
    IN  IF matches = {} THEN (IF accounts = <<>> THEN 0 ELSE 1)
        ELSE CHOOSE k \in matches : \A m \in matches : k <= m

Find(accounts, currency) ==
    LET matches == {k \in 1..Len(accounts) : HasCurrency(accounts[k], currency)}
    IN  IF matches = {} THEN 0
        ELSE CHOOSE k \in matches : \A m \in matches : k <= m

\* the transfer request of sendMoney
sendMoney_Transfer(params, accountId) ==
    WalletFetch("/v2/Transfer/Email",
        [SourceAccountId |-> accountId,
         Amount |-> [Currency |-> params.currency, Value |-> params.amount],
         TargetEmail |-> params.recipientEmail,
         Comment |-> IF Truthy(params, "comment") THEN params.comment ELSE ""],
        "POST")

\* sendMoney up to its first await: the accounts request when no source
\* account was given, the transfer request otherwise
sendMoney(params) ==
    IF ~Truthy(params, "sourceAccountId") THEN getAccounts
    ELSE sendMoney_Transfer(params, params.sourceAccountId)

\* sendMoney after getAccounts returned: Return(the transfer request), or
\* Throw when no account is in the currency
sendMoney_Select(params, accounts) ==
    LET k == Find(accounts, params.currency)
    IN  IF k = 0
        THEN Throw(Lit("No account found with currency ") \o Lit(params.currency))
        ELSE Return(sendMoney_Transfer(params, accounts[k].Id))

-----------------------------------------------------------------------------
(* error-handler.ts: formatBarionError *)

\* the words of the model that hold a needle of the error formatter inside
\* them: <<word, needle>>
Within ==
    { <<"https://api.test.barion.com", "test.barion.com">> }

WithinLowerCase ==
    { <<"no transaction of this payment", "transaction">>,
      <<"no transaction of this payment", "payment">>,
      <<"AmountTooHigh", "amount">>,
      <<"InvalidPaymentState", "payment">>,
      <<"PaymentNotFound", "payment">>,
      <<"paymenttype", "payment">>,
      <<"\n\n[... Output truncated. Total length: ", "total">>,
      <<"\n### Transactions\n\n", "transaction">>,
      <<"\nAmount: ", "amount">>,
      <<" Payment completed successfully", "payment">>,
      <<" Payment failed", "payment">>,
      <<" Waiting for customer to complete payment", "payment">>,
      <<" more transactions", "transaction">>,
      <<" total)\n\n", "total">>,
      <<" transactions found\n\n", "transaction">>,
      <<" transactions)\n\n", "transaction">>,
      <<"## Payment Details\n\n", "payment">>,
      <<"## Wallet Accounts\n\nNo accounts found.", "account">>,
      <<"## Wallet Accounts (", "account">>,
      <<"## Wallet Statement\n\nNo transactions found for this period.", "transaction">>,
      <<"### Account ", "account">>,
      <<"### Transaction ", "transaction">>,
      <<"**Currency:** ", "currency">>,
      <<"**Payment ID:** ", "payment">>,
      <<"**Total Amount:** ", "amount">>,
      <<"**Total Amount:** ", "total">>,
      <<"**Transaction ", "transaction">>,
      <<"**Transaction ID:** ", "transaction">>,
      <<"- **Account ID:** ", "account">>,
      <<"- **Amount:** ", "amount">>,
      <<"- **Currency:** ", "currency">>,
      <<"- **Transaction ID:** ", "transaction">>,
      <<"- Amount: ", "amount">>,
      <<"- Payee: ", "payee">>,
      <<"/v2/Payment/CancelAuthorization", "payment">>,
      <<"/v2/Payment/Capture", "payment">>,
      <<"/v2/Payment/FinishReservation", "payment">>,
      <<"/v2/Payment/GetPaymentState", "payment">>,
      <<"/v2/Payment/Refund", "payment">>,
      <<"/v2/Payment/Start", "payment">>,
      <<"/v2/Transfer/Email", "email">>,
      <<"/v2/accounts", "account">>,
      <<"Accounts", "account">>,
      <<"Amount", "amount">>,
      <<"At least one parameter (lastRequestTime, lastVisibleItemId, or currency) must be provided", "currency">>,
      <<"Capture Payment", "payment">>,
      <<"Currency", "currency">>,
      <<"Get Payment State", "payment">>,
      <<"Get Wallet Accounts", "account">>,
      <<"No account found with currency ", "account">>,
      <<"No account found with currency ", "currency">>,
      <<"No transactions found for this period", "transaction">>,
      <<"No wallet accounts found", "account">>,
      <<"Payee", "payee">>,
      <<"Payment", "payment">>,
      <<"Payment ", "payment">>,
      <<"Payment Captured", "payment">>,
      <<"Payment Created", "payment">>,
      <<"PaymentId", "payment">>,
      <<"PaymentType", "payment">>,
      <<"PaymentType", "paymenttype">>,
      <<"Refund Payment", "payment">>,
      <<"Start Payment", "payment">>,
      <<"Total", "total">>,
      <<"TransactionId", "transaction">>,
      <<"TransactionTime", "transaction">>,
      <<"Transactions", "transaction">> }

\* errorMessage.includes(needle)
Includes(t, needle) ==
    \E k \in 1..Len(t) :
        t[k].lit /\ (t[k].s = needle \/ <<t[k].s, needle>> \in Within)

\* errorMessage.toLowerCase().includes(needle), for a lower-case needle
LowerIncludes(t, needle) ==
    \E k \in 1..Len(t) :
        t[k].lit /\ (t[k].s = needle \/ <<t[k].s, needle>> \in WithinLowerCase)

formatAuthenticationError(operationName, errorMessage) ==
    LET environment ==
            IF Includes(errorMessage, "test.barion.com") THEN "test" ELSE "prod"
    IN
    Glyph("U+274C")
    \o Lit(" Authentication Failed: ")
    \o Lit(operationName)
    \o Lit("\n\n**Issue:** Invalid or missing credentials for Barion ")
    \o Lit(environment)
    \o Lit(" environment.\n\n**Possible Causes:**\n"
        \o "1. POSKey or API Key is incorrect or expired\n"
        \o "2. Using test credentials in production environment (or vice versa)\n"
        \o "3. Credentials not properly configured in environment variables\n"
        \o "\n**How to Fix:**\n"
        \o "- For payment operations: Verify BARION_POS_KEY is correct for ")
    \o Lit(environment)
    \o Lit(" environment\n"
        \o "- For wallet operations: Verify BARION_API_KEY is correct for ")
    \o Lit(environment)
    \o Lit(" environment\n- Check environment setting: Currently using '")
    \o Lit(environment)
    \o Lit("' - is this correct?\n"
        \o "- Get credentials from: https://secure.barion.com/ (test) or https://s"
        \o "ecure.barion.com/ (prod)\n"
        \o "\n**Next Steps:**\n"
        \o "1. Double-check your credentials in .env file or environment variables"
        \o "\n"
        \o "2. Ensure you're using ")
    \o Lit(environment)
    \o Lit(" credentials for ")
    \o Lit(environment)
    \o Lit(" API\n3. Try regenerating your API keys if credentials are old\n\n"
        \o "Original error: ")
    \o errorMessage

formatValidationError(operationName, errorMessage) ==
    LET guidance ==
        IF LowerIncludes(errorMessage, "currency")
        THEN Lit("\n**Issue:** Invalid currency code.\n"
                     \o "**Fix:** Use uppercase currency codes: HUF, EUR, USD, or CZK")
        ELSE IF LowerIncludes(errorMessage, "email")
        THEN Lit("\n**Issue:** Invalid email address.\n"
                     \o "**Fix:** Provide a valid email in format: user@example.com")
        ELSE IF LowerIncludes(errorMessage, "amount")
              \/ LowerIncludes(errorMessage, "total")
        THEN Lit("\n**Issue:** Invalid amount value.\n"
                     \o "**Fix:** Ensure amount is a positive number and does not exceed availa"
                     \o "ble balance or reservation amount")
        ELSE IF LowerIncludes(errorMessage, "paymenttype")
        THEN Lit("\n**Issue:** Invalid payment type.\n"
                     \o "**Fix:** Use one of: \"Immediate\", \"Reservation\", or \"DelayedCapture\"")
        ELSE IF LowerIncludes(errorMessage, "payee")
        THEN Lit("\n**Issue:** Invalid payee email.\n"
                     \o "**Fix:** Payee must be a registered Barion merchant account email")
        ELSE <<>>
    IN
    Glyph("U+274C")
    \o Lit(" Validation Error: ")
    \o Lit(operationName)
    \o Lit("\n\n**Issue:** Request contains invalid or missing data.\n")
    \o guidance
    \o Lit("\n\n**Common Validation Errors:**\n"
        \o "- Currency codes must be uppercase (HUF, EUR, USD, CZK)\n"
        \o "- Amounts must be positive numbers\n"
        \o "- Email addresses must be valid and properly formatted\n"
        \o "- Payment types: \"Immediate\", \"Reservation\", or \"DelayedCapture\"\n"
        \o "- Dates/times must be in correct format\n\n**Next Steps:**\n"
        \o "1. Review all parameter values for correct format\n"
        \o "2. Check API documentation for required fields\n"
        \o "3. Validate amounts are within acceptable limits\n\n"
        \o "Original error: ")
    \o errorMessage

formatNotFoundError_NoTransaction(operationName, errorMessage) ==
    LET specific ==
        IF LowerIncludes(errorMessage, "payment")
        THEN Lit("\n"
                     \o "**Likely Issue:** Payment ID does not exist or has been deleted.\n"
                     \o "**Fix:** Use get_payment_state with a valid PaymentId from a recent st"
                     \o "art_payment call")
        ELSE IF LowerIncludes(errorMessage, "account")
        THEN Lit("\n**Likely Issue:** Account ID not found.\n"
                     \o "**Fix:** Use get_wallet_accounts to retrieve valid Account IDs")
        ELSE <<>>
    IN
    Glyph("U+274C")
    \o Lit(" Not Found: ")
    \o Lit(operationName)
    \o Lit("\n\n**Issue:** The requested resource does not exist.\n")
    \o specific
    \o Lit("\n\nOriginal error: ")
    \o errorMessage

formatNotFoundError(operationName, errorMessage) ==
    LET specific ==
        IF LowerIncludes(errorMessage, "payment")
        THEN Lit("\n"
                     \o "**Likely Issue:** Payment ID does not exist or has been deleted.\n"
                     \o "**Fix:** Use get_payment_state with a valid PaymentId from a recent st"
                     \o "art_payment call")
        ELSE IF LowerIncludes(errorMessage, "transaction")
        THEN Lit("\n**Likely Issue:** Transaction ID not found.\n"
                     \o "**Fix:** Get valid TransactionId from get_payment_state response befor"
                     \o "e attempting refund/capture")
        ELSE IF LowerIncludes(errorMessage, "account")
        THEN Lit("\n**Likely Issue:** Account ID not found.\n"
                     \o "**Fix:** Use get_wallet_accounts to retrieve valid Account IDs")
        ELSE <<>>
    IN
    Glyph("U+274C")
    \o Lit(" Not Found: ")
    \o Lit(operationName)
    \o Lit("\n\n**Issue:** The requested resource does not exist.\n")
    \o specific
    \o Lit("\n\n**Common Causes:**\n- Using an incorrect or expired ID\n"
        \o "- Resource was already deleted or cancelled\n"
        \o "- Typo in the ID value\n"
        \o "- Using test IDs in production (or vice versa)\n\n**Next Steps:**\n"
        \o "1. Verify the ID is correct and was recently created\n"
        \o "2. Check you're in the correct environment (test vs prod)\n"
        \o "3. For payment operations: Use get_payment_state to verify payment exi"
        \o "sts\n"
        \o "4. For wallet operations: Use get_wallet_accounts to get valid account"
        \o " IDs\n"
        \o "\nOriginal error: ")
    \o errorMessage

formatServerError(operationName, errorMessage) ==
    Glyph("U+274C")
    \o Lit(" Server Error: ")
    \o Lit(operationName)
    \o Lit("\n\n**Issue:** Barion API server encountered an error.\n\n"
        \o "**This is typically a temporary issue on Barion's side.**\n\n"
        \o "**What to do:**\n1. Wait 30-60 seconds and retry the operation\n"
        \o "2. Check Barion status page: https://status.barion.com (if available)\n"
        \o "3. If error persists for >5 minutes, contact Barion support\n\n"
        \o "**Note:** Your request may or may not have been processed. Before retr"
        \o "ying:\n"
        \o "- For payment operations: Check get_payment_state to see if payment wa"
        \o "s created\n"
        \o "- For financial operations: Check get_wallet_statement to see if trans"
        \o "action was recorded\n"
        \o "- Avoid duplicate submissions that could result in double-charging\n"
        \o "\nOriginal error: ")
    \o errorMessage

formatNetworkError(operationName, errorMessage) ==
    Glyph("U+274C")
    \o Lit(" Network Error: ")
    \o Lit(operationName)
    \o Lit("\n\n**Issue:** Cannot connect to Barion API.\n\n"
        \o "**Possible Causes:**\n1. No internet connection\n"
        \o "2. Firewall blocking access to Barion API\n"
        \o "3. DNS resolution failure\n4. Barion API is temporarily down\n\n"
        \o "**How to Fix:**\n1. Check your internet connection\n"
        \o "2. Verify firewall allows connections to:\n"
        \o "   - https://api.test.barion.com (test environment)\n"
        \o "   - https://api.barion.com (production environment)\n"
        \o "3. Try accessing Barion website in browser to confirm connectivity\n"
        \o "4. If behind corporate proxy, ensure proxy is configured correctly\n"
        \o "\n**Next Steps:**\n"
        \o "1. Test connectivity: curl https://api.test.barion.com\n"
        \o "2. Check DNS: nslookup api.barion.com\n"
        \o "3. Retry operation once connectivity is restored\n\n"
        \o "Original error: ")
    \o errorMessage

parseBarionApiError(operationName, errorMessage) ==
    LET guidance ==
        IF Includes(errorMessage, "ModelValidation")
              \/ Includes(errorMessage, "InvalidInput")
        THEN Lit("\n**Barion Validation Error**\n\n"
                     \o "The request data failed Barion's validation rules.\n\n"
                     \o "**Common Issues:**\n- Required fields are missing\n"
                     \o "- Values are in incorrect format\n"
                     \o "- Currency mismatch (e.g., trying to refund EUR when payment was HUF)\n"
                     \o "- Amount exceeds maximum allowed or available balance\n\n"
                     \o "**How to Fix:**\n1. Check all required parameters are provided\n"
                     \o "2. Verify currency codes match across related operations\n"
                     \o "3. Ensure amounts don't exceed limits or available funds\n"
                     \o "4. Validate email addresses are properly formatted")
        ELSE IF Includes(errorMessage, "PaymentNotFound")
              \/ Includes(errorMessage, "TransactionNotFound")
        THEN Lit("\n**Resource Not Found**\n\n"
                     \o "The payment or transaction ID does not exist.\n\n**How to Fix:**\n"
                     \o "1. Use get_payment_state first to verify the payment exists\n"
                     \o "2. Copy the exact PaymentId from the start_payment response\n"
                     \o "3. For transactions: Get TransactionId from get_payment_state response"
                     \o "\n"
                     \o "4. Ensure you're using the correct environment (test vs prod)")
        ELSE IF Includes(errorMessage, "InvalidPaymentState")
              \/ Includes(errorMessage, "StateError")
        THEN Lit("\n**Invalid Payment State**\n\n"
                     \o "The operation cannot be performed in the current payment state.\n"
                     \o "\n**Common Issues:**\n"
                     \o "- Trying to capture a payment that's not Reserved/Authorized\n"
                     \o "- Attempting to refund a payment that hasn't Succeeded\n"
                     \o "- Trying to finish a reservation that's already captured\n\n"
                     \o "**How to Fix:**\n"
                     \o "1. Use get_payment_state to check current payment status\n"
                     \o "2. Valid state transitions:\n   - Reservation ")
                 \o Glyph("U+2192")
                 \o Lit(" finish_reservation (when Status=Reserved)\n   - DelayedCapture ")
                 \o Glyph("U+2192")
                 \o Lit(" capture_payment (when Status=Authorized)\n   - Succeeded ")
                 \o Glyph("U+2192")
                 \o Lit(" refund_payment (when Status=Succeeded)\n"
                     \o "3. Wait for customer to complete payment before attempting capture/ref"
                     \o "und")
        ELSE IF Includes(errorMessage, "InsufficientFunds")
        THEN Lit("\n**Insufficient Funds**\n\n"
                     \o "The wallet does not have enough balance for this operation.\n\n"
                     \o "**How to Fix:**\n"
                     \o "1. Use get_wallet_balance to check available funds\n"
                     \o "2. Ensure sufficient balance in the specified currency\n"
                     \o "3. Reduce withdrawal/transfer amount\n"
                     \o "4. Add funds to wallet before retrying")
        ELSE IF Includes(errorMessage, "AmountTooHigh")
              \/ Includes(errorMessage, "ExceedsMaximum")
        THEN Lit("\n**Amount Exceeds Maximum**\n\n"
                     \o "The amount is higher than allowed or available.\n\n"
                     \o "**How to Fix:**\n"
                     \o "1. For captures/refunds: Amount cannot exceed original payment amount\n"
                     \o "2. For withdrawals: Amount cannot exceed available balance\n"
                     \o "3. Check Barion's limits for your account type\n"
                     \o "4. Reduce the amount and retry")
        ELSE IF Includes(errorMessage, "Expired")
              \/ Includes(errorMessage, "TimeLimit")
        THEN Lit("\n**Operation Timeout**\n\nThe operation window has expired.\n\n"
                     \o "**Common Causes:**\n- Reservation not captured within 7 days\n"
                     \o "- Payment authorization expired\n"
                     \o "- Customer didn't complete payment in time\n\n**How to Fix:**\n"
                     \o "1. For reservations: Capture within 7 days or funds auto-release\n"
                     \o "2. For expired payments: Create a new payment - old one cannot be reco"
                     \o "vered\n"
                     \o "3. Check get_payment_state to see if payment is still active")
        ELSE IF Includes(errorMessage, "Unauthorized")
              \/ Includes(errorMessage, "Permission")
        THEN Lit("\n**Permission Denied**\n\n"
                     \o "Your account doesn't have permission for this operation.\n\n"
                     \o "**How to Fix:**\n"
                     \o "1. Verify you're using the correct API key/POSKey\n"
                     \o "2. Check your Barion account permissions\n"
                     \o "3. Ensure account is fully verified for this operation type\n"
                     \o "4. Contact Barion support to enable required permissions")
        ELSE <<>>
    IN
    Glyph("U+274C")
    \o Lit(" ")
    \o Lit(operationName)
    \o Lit(" Failed - Barion API Error\n\n")
    \o guidance
    \o Lit("\n\n**Full Error Details:**\n")
    \o errorMessage
    \o Lit("\n\n**General Troubleshooting:**\n"
        \o "1. Check payment state with get_payment_state before operations\n"
        \o "2. Verify all amounts are correct and within limits\n"
        \o "3. Ensure currencies match across related operations\n"
        \o "4. Review Barion API documentation for specific error codes")

formatBarionError_NetworkSummary(operationName, errorMessage) ==
    IF Includes(errorMessage, "HTTP 401") \/ Includes(errorMessage, "HTTP 403")
    THEN formatAuthenticationError(operationName, errorMessage)
    ELSE IF Includes(errorMessage, "HTTP 400")
    THEN formatValidationError(operationName, errorMessage)
    ELSE IF Includes(errorMessage, "HTTP 404")
    THEN formatNotFoundError(operationName, errorMessage)
    ELSE IF Includes(errorMessage, "HTTP 500") \/ Includes(errorMessage, "HTTP 502")
            \/ Includes(errorMessage, "HTTP 503")
    THEN formatServerError(operationName, errorMessage)
    ELSE IF Includes(errorMessage, "Barion API Error:")
    THEN parseBarionApiError(operationName, errorMessage)
    ELSE IF Includes(errorMessage, "ECONNREFUSED") \/ Includes(errorMessage, "ENOTFOUND")
            \/ Includes(errorMessage, "fetch failed")
    THEN formatNetworkError(operationName, Lit("fetch failed"))
    ELSE Glyph("U+274C")
         \o Lit(" ")
         \o Lit(operationName)
         \o Lit(" failed: ")
         \o errorMessage
         \o Lit("\n\nTroubleshooting:\n"
             \o "- Verify all required parameters are provided\n"
             \o "- Check that values are in correct format\n"
             \o "- Ensure sufficient balance/permissions for this operation")

formatBarionError_DomainFirst(operationName, errorMessage) ==
    IF Includes(errorMessage, "Barion API Error:")
    THEN parseBarionApiError(operationName, errorMessage)
    ELSE IF Includes(errorMessage, "HTTP 401") \/ Includes(errorMessage, "HTTP 403")
    THEN formatAuthenticationError(operationName, errorMessage)
    ELSE IF Includes(errorMessage, "HTTP 400")
    THEN formatValidationError(operationName, errorMessage)
    ELSE IF Includes(errorMessage, "HTTP 404")
    THEN formatNotFoundError(operationName, errorMessage)
    ELSE IF Includes(errorMessage, "HTTP 500") \/ Includes(errorMessage, "HTTP 502")
            \/ Includes(errorMessage, "HTTP 503")
    THEN formatServerError(operationName, errorMessage)
    ELSE IF Includes(errorMessage, "ECONNREFUSED") \/ Includes(errorMessage, "ENOTFOUND")
            \/ Includes(errorMessage, "fetch failed")
    THEN formatNetworkError(operationName, errorMessage)
    ELSE Glyph("U+274C")
         \o Lit(" ")
         \o Lit(operationName)
         \o Lit(" failed: ")
         \o errorMessage
         \o Lit("\n\nTroubleshooting:\n"
             \o "- Verify all required parameters are provided\n"
             \o "- Check that values are in correct format\n"
             \o "- Ensure sufficient balance/permissions for this operation")

formatBarionError(operationName, errorMessage) ==
    IF Includes(errorMessage, "HTTP 401") \/ Includes(errorMessage, "HTTP 403")
    THEN formatAuthenticationError(operationName, errorMessage)
    ELSE IF Includes(errorMessage, "HTTP 400")
    THEN formatValidationError(operationName, errorMessage)
    ELSE IF Includes(errorMessage, "HTTP 404")
    THEN formatNotFoundError(operationName, errorMessage)
    ELSE IF Includes(errorMessage, "HTTP 500") \/ Includes(errorMessage, "HTTP 502")
            \/ Includes(errorMessage, "HTTP 503")
    THEN formatServerError(operationName, errorMessage)
    ELSE IF Includes(errorMessage, "Barion API Error:")
    THEN parseBarionApiError(operationName, errorMessage)
    ELSE IF Includes(errorMessage, "ECONNREFUSED") \/ Includes(errorMessage, "ENOTFOUND")
            \/ Includes(errorMessage, "fetch failed")
    THEN formatNetworkError(operationName, errorMessage)
    ELSE Glyph("U+274C")
         \o Lit(" ")
         \o Lit(operationName)
         \o Lit(" failed: ")
         \o errorMessage
         \o Lit("\n\nTroubleshooting:\n"
             \o "- Verify all required parameters are provided\n"
             \o "- Check that values are in correct format\n"
             \o "- Ensure sufficient balance/permissions for this operation")

-----------------------------------------------------------------------------
(* index.ts, tools.ts: the options of the process and what main does *)

\* the options yargs hands to main: --environment is one of its choices, an
\* option given without a value is the empty text
Flags ==
    { p @@ k @@ e : p \in Optional("poskey", {"", POSKEY}),
                    k \in Optional("apiKey", {"", API_KEY}),
                    e \in Optional("environment", {"test", "prod"}) }

\* process.env: the three variables main reads
EnvironmentVariables ==
    { p @@ k @@ e : p \in Optional("BARION_POS_KEY", {"", POSKEY}),
                    k \in Optional("BARION_API_KEY", {"", API_KEY}),
                    e \in Optional("BARION_ENVIRONMENT",
                                   {"", "test", "prod", "production", "PROD"}) }

\* argv.x || process.env.Y: the property x of the result, left out when the
\* value is undefined
OrVariable(argv, x, environ, y) ==
    IF Truthy(argv, x) THEN x :> argv[x]
    ELSE IF Has(environ, y) THEN x :> environ[y]
    ELSE NoFields

\* poskey, apiKey and environment as main resolves them
credentials(argv, environ) ==
    OrVariable(argv, "poskey", environ, "BARION_POS_KEY")
    @@ OrVariable(argv, "apiKey", environ, "BARION_API_KEY")
    @@ [environment |->
          IF Truthy(argv, "environment") THEN argv.environment
          ELSE IF Truthy(environ, "BARION_ENVIRONMENT")
          THEN environ.BARION_ENVIRONMENT
          ELSE "test"]

\* a line written with console.error
Line(t, v) == [text |-> t, value |-> v]

CredentialError ==
    Line("Error: At least one credential is required. Provide BARION_POS_KEY "
         \o "for payment tools or BARION_API_KEY for wallet tools.", "")

\* the process when main is entered
Entered(argv, environ) ==
    [stage |-> "entered", argv |-> argv, environ |-> environ,
     credentials |-> NoFields, catalog |-> {}, clients |-> NoFields,
     connected |-> FALSE, exited |-> FALSE, status |-> 0, stderr |-> <<>>]

main_Create_BothRequired(p) ==
    LET c == credentials(p.argv, p.environ)
        debug == << Line("[Debug] POSKey present:",
                         IF Truthy(c, "poskey") THEN "true" ELSE "false"),
                    Line("[Debug] API Key present:",
                         IF Truthy(c, "apiKey") THEN "true" ELSE "false"),
                    Line("[Debug] Environment:", c.environment) >>
    IN  IF ~Truthy(c, "poskey") \/ ~Truthy(c, "apiKey")
        THEN [p EXCEPT !.stage = "exited", !.credentials = c, !.exited = TRUE,
                       !.status = 1,
                       !.stderr = debug \o <<CredentialError>>]
        ELSE [p EXCEPT !.stage = "created", !.credentials = c, !.stderr = debug]

\* main from the options to the new McpServer: the process exits with
\* status 1 when both credentials are falsy
main_Create(p) ==
    LET c == credentials(p.argv, p.environ)
        debug == << Line("[Debug] POSKey present:",
                         IF Truthy(c, "poskey") THEN "true" ELSE "false"),
                    Line("[Debug] API Key present:",
                         IF Truthy(c, "apiKey") THEN "true" ELSE "false"),
                    Line("[Debug] Environment:", c.environment) >>
    IN  IF ~Truthy(c, "poskey") /\ ~Truthy(c, "apiKey")
        THEN [p EXCEPT !.stage = "exited", !.credentials = c, !.exited = TRUE,
                       !.status = 1,
                       !.stderr = debug \o <<CredentialError>>]
        ELSE [p EXCEPT !.stage = "created", !.credentials = c, !.stderr = debug]

\* new BarionClient(key, environment), new WalletClient(key, environment)
NewClient(key, environment) ==
    [key |-> key, environment |-> environment, baseUrl |-> BaseUrl(environment)]

configureAllTools_OneEnvironmentEach(p) ==
    LET c == p.credentials
    IN  [p EXCEPT
           !.stage = "configured",
           !.clients =
               (IF Truthy(c, "poskey")
                THEN [payment |-> NewClient(c.poskey, c.environment)]
                ELSE NoFields)
               @@ (IF Truthy(c, "apiKey")
                   THEN [wallet |-> NewClient(c.apiKey, "test")]
                   ELSE NoFields),
           !.catalog = (IF Truthy(c, "poskey") THEN PaymentTools ELSE {})
                       \cup (IF Truthy(c, "apiKey") THEN WalletTools ELSE {})]

configureAllTools_Always(p) ==
    LET c == p.credentials
        environment == IF Truthy(c, "environment") THEN c.environment ELSE "test"
    IN  [p EXCEPT
           !.stage = "configured",
           !.clients = [payment |-> NewClient(Prop(c, "poskey"), environment),
                        wallet |-> NewClient(Prop(c, "apiKey"), environment)],
           !.catalog = PaymentTools \cup WalletTools]

\* configureAllTools(server, {poskey, apiKey, environment})
configureAllTools(p) ==
    LET c == p.credentials
        environment == IF Truthy(c, "environment") THEN c.environment ELSE "test"
    IN  [p EXCEPT
           !.stage = "configured",
           !.clients =
               (IF Truthy(c, "poskey")
                THEN [payment |-> NewClient(c.poskey, environment)]
                ELSE NoFields)
               @@ (IF Truthy(c, "apiKey")
                   THEN [wallet |-> NewClient(c.apiKey, environment)]
                   ELSE NoFields),
           !.catalog = (IF Truthy(c, "poskey") THEN PaymentTools ELSE {})
                       \cup (IF Truthy(c, "apiKey") THEN WalletTools ELSE {})]

\* await server.connect(transport) resolved
main_Connect(p) ==
    [p EXCEPT !.stage = "connected", !.connected = TRUE,
              !.stderr = Append(@, Line("Barion MCP server started successfully", ""))]

\* await server.connect(transport) rejected: main().catch
main_Fatal(p) ==
    [p EXCEPT !.stage = "exited", !.exited = TRUE, !.status = 1,
              !.stderr = Append(@, Line("Fatal error:", "error"))]

\* the process the handlers run in: started with both credentials given as
\* options, connected
Running(environment) ==
    main_Connect(configureAllTools(main_Create(
        Entered([poskey |-> POSKEY, apiKey |-> API_KEY, environment |-> environment],
                NoFields))))

-----------------------------------------------------------------------------
(* The handlers: one invocation of a tool *)

\* the invocations that can be in progress; the runtime delivers one
\* invocation at a time to its handler
Invocations == {"i1", "i2"}

Sequential == {"i1"}

\* no outcome yet
NotYet == [threw |-> FALSE, pending |-> TRUE]

\* no result yet
NoResult == [content |-> <<>>]

ErrorResult_Unflagged(t, message) ==
    [content |-> <<[type |-> "text",
                    text |-> formatBarionError(OperationName(t), message)]>>]

\* the catch branch of a handler
ErrorResult(t, message) ==
    [content |-> <<[type |-> "text",
                    text |-> formatBarionError(OperationName(t), message)]>>,
     isError |-> TRUE]

\* the return of the try branch
TextResult(t) == [content |-> <<[type |-> "text", text |-> t]>>]

Last(l) == l[Len(l)]

\* the client method up to its first await: Return(the request it issues),
\* or Throw
FirstCall(t, a, generated) ==
    CASE t = "get_wallet_accounts" -> Return(getAccounts)
      [] t = "get_wallet_balance" -> Return(getAccounts)
      [] t = "get_wallet_statement" ->
           Return(getStatement(a))
      [] t = "withdraw_to_bank" -> Return(withdraw(a))
      [] t = "get_user_history" -> getUserHistory(a)
      [] t = "send_money" -> Return(sendMoney(a))
      [] t = "start_payment" -> Return(startPayment(a, generated))
      [] t = "get_payment_state" -> Return(getPaymentState(a.paymentId))
      [] t = "finish_reservation" -> Return(finishReservation(a))
      [] t = "refund_payment" -> Return(refundPayment(a))
      [] t = "capture_payment" -> Return(capturePayment(a))
      [] t = "cancel_authorization" -> Return(cancelAuthorization(a))

\* the client method after request() returned json: what it returns
MethodResult(t, a, json) ==
    CASE t = "get_wallet_accounts" -> Return(getAccounts_Result(json))
      [] t = "get_wallet_balance" ->
           Return(getBalance_Result(json, IF Has(a, "currency") THEN a.currency ELSE ""))
      [] t = "get_wallet_statement" -> Return(getStatement_Result(json))
      [] t = "get_user_history" -> getUserHistory_Result(json)
      [] OTHER -> Return(json)

Init ==
    /\ env \in Environments
    /\ proc = Running(env)
    /\ pc = [i \in Invocations |-> "idle"]
    /\ tool = [i \in Invocations |-> "none"]
    /\ args = [i \in Invocations |-> NoFields]
    /\ sent = [i \in Invocations |-> <<>>]
    /\ got = [i \in Invocations |-> <<>>]
    /\ outcomes = [i \in Invocations |-> <<>>]
    /\ call = [i \in Invocations |-> NotYet]
    /\ formatted = [i \in Invocations |-> NotYet]
    /\ result = [i \in Invocations |-> NoResult]
    /\ text = <<>>
    /\ passes = 0

\* the runtime calls the handler of tool t with arguments a; the handler runs
\* to its first await, or to its return when the client method throws at once
Invoke(i, t, a, generated) ==
    /\ pc[i] = "idle"
    /\ tool' = [tool EXCEPT ![i] = t]
    /\ args' = [args EXCEPT ![i] = a]
    /\ got' = [got EXCEPT ![i] = <<>>]
    /\ outcomes' = [outcomes EXCEPT ![i] = <<>>]
    /\ formatted' = [formatted EXCEPT ![i] = NotYet]
    /\ LET first == FirstCall(t, a, generated)
       IN  IF first.threw
           THEN /\ sent' = [sent EXCEPT ![i] = <<>>]
                /\ call' = [call EXCEPT ![i] = first]
                /\ result' = [result EXCEPT ![i] = ErrorResult(t, first.message)]
                /\ pc' = [pc EXCEPT ![i] = "done"]
           ELSE /\ sent' = [sent EXCEPT ![i] = <<first.value>>]
                /\ call' = [call EXCEPT ![i] = NotYet]
                /\ result' = [result EXCEPT ![i] = NoResult]
                /\ pc' = [pc EXCEPT ![i] =
                            IF t = "send_money" /\ first.value.endpoint = "/v2/accounts"
                            THEN "accounts" ELSE "fetch"]
    /\ UNCHANGED <<proc, env, text, passes>>

\* fetch settles: the upstream answers the request in flight, or fetch rejects
Fetch(i) ==
    /\ pc[i] \in {"accounts", "fetch"}
    /\ \E r \in Responses(Last(sent[i]).endpoint) :
          got' = [got EXCEPT ![i] = Append(@, r)]
    /\ pc' = [pc EXCEPT ![i] = IF pc[i] = "accounts" THEN "accounts-fetched"
                               ELSE "fetched"]
    /\ UNCHANGED <<proc, env, tool, args, sent, outcomes, call, formatted, result,
                   text, passes>>

SelectAccount_Regardless(i) ==
    /\ pc[i] = "accounts-fetched"
    /\ LET o == WalletRequest(Last(got[i]))
           selected == IF o.threw THEN Return(sendMoney_Transfer(args[i], "undefined"))
                       ELSE sendMoney_Select(args[i], getAccounts_Result(o.value))
       IN  /\ outcomes' = [outcomes EXCEPT ![i] = Append(@, o)]
           /\ IF selected.threw
              THEN /\ call' = [call EXCEPT ![i] = selected]
                   /\ result' = [result EXCEPT ![i] =
                                    ErrorResult(tool[i], selected.message)]
                   /\ pc' = [pc EXCEPT ![i] = "done"]
                   /\ UNCHANGED sent
              ELSE /\ sent' = [sent EXCEPT ![i] = Append(@, selected.value)]
                   /\ pc' = [pc EXCEPT ![i] = "fetch"]
                   /\ UNCHANGED <<call, result>>
    /\ UNCHANGED <<proc, env, tool, args, got, formatted, text, passes>>

\* sendMoney resumes after the fetch of getAccounts: it selects the source
\* account and issues the transfer request, or throws into the catch branch
SelectAccount(i) ==
    /\ pc[i] = "accounts-fetched"
    /\ LET o == WalletRequest(Last(got[i]))
           selected == sendMoney_Select(args[i], getAccounts_Result(o.value))
           thrown == IF o.threw THEN o ELSE selected
       IN  /\ outcomes' = [outcomes EXCEPT ![i] = Append(@, o)]
           /\ IF thrown.threw
              THEN /\ call' = [call EXCEPT ![i] = thrown]
                   /\ result' = [result EXCEPT ![i] =
                                    ErrorResult(tool[i], thrown.message)]
                   /\ pc' = [pc EXCEPT ![i] = "done"]
                   /\ UNCHANGED sent
              ELSE /\ sent' = [sent EXCEPT ![i] = Append(@, selected.value)]
                   /\ pc' = [pc EXCEPT ![i] = "fetch"]
                   /\ UNCHANGED <<call, result>>
    /\ UNCHANGED <<proc, env, tool, args, got, formatted, text, passes>>

Complete_Retry(i) ==
    /\ pc[i] = "fetched"
    /\ LET o == Request(ClientOf(tool[i]), Last(got[i]))
           returned == IF o.threw THEN o ELSE MethodResult(tool[i], args[i], o.value)
           f == IF returned.threw THEN NotYet
                ELSE formatResponse(returned.value, ReturnsArray(tool[i]),
                                    args[i].format, args[i].detail,
                                    FormatterOf(tool[i]))
       IN  IF o.threw /\ Len(outcomes[i]) = 0
           THEN /\ sent' = [sent EXCEPT ![i] = Append(@, Last(@))]
                /\ outcomes' = [outcomes EXCEPT ![i] = Append(@, o)]
                /\ pc' = [pc EXCEPT ![i] = "fetch"]
                /\ UNCHANGED <<call, formatted, result>>
           ELSE /\ outcomes' = [outcomes EXCEPT ![i] = Append(@, o)]
                /\ call' = [call EXCEPT ![i] = returned]
                /\ formatted' = [formatted EXCEPT ![i] = f]
                /\ result' = [result EXCEPT ![i] =
                                 IF returned.threw
                                 THEN ErrorResult(tool[i], returned.message)
                                 ELSE IF f.threw THEN ErrorResult(tool[i], f.message)
                                 ELSE TextResult(f.value)]
                /\ pc' = [pc EXCEPT ![i] = "done"]
                /\ UNCHANGED sent
    /\ UNCHANGED <<proc, env, tool, args, got, text, passes>>

\* the handler resumes after the fetch of its request: request() returns or
\* throws, the client method returns or throws, the handler formats and
\* returns
Complete(i) ==
    /\ pc[i] = "fetched"
    /\ LET o == Request(ClientOf(tool[i]), Last(got[i]))
           returned == IF o.threw THEN o ELSE MethodResult(tool[i], args[i], o.value)
           f == IF returned.threw THEN NotYet
                ELSE formatResponse(returned.value, ReturnsArray(tool[i]),
                                    args[i].format, args[i].detail,
                                    FormatterOf(tool[i]))
       IN  /\ outcomes' = [outcomes EXCEPT ![i] = Append(@, o)]
           /\ call' = [call EXCEPT ![i] = returned]
           /\ formatted' = [formatted EXCEPT ![i] = f]
           /\ result' = [result EXCEPT ![i] =
                            IF returned.threw THEN ErrorResult(tool[i], returned.message)
                            ELSE IF f.threw THEN ErrorResult(tool[i], f.message)
                            ELSE TextResult(f.value)]
    /\ pc' = [pc EXCEPT ![i] = "done"]
    /\ UNCHANGED <<proc, env, tool, args, sent, got, text, passes>>

\* the runtime sends the result of the handler to the caller; nothing of the
\* invocation is kept
Respond(i) ==
    /\ pc[i] = "done"
    /\ pc' = [pc EXCEPT ![i] = "idle"]
    /\ tool' = [tool EXCEPT ![i] = "none"]
    /\ args' = [args EXCEPT ![i] = NoFields]
    /\ sent' = [sent EXCEPT ![i] = <<>>]
    /\ got' = [got EXCEPT ![i] = <<>>]
    /\ outcomes' = [outcomes EXCEPT ![i] = <<>>]
    /\ call' = [call EXCEPT ![i] = NotYet]
    /\ formatted' = [formatted EXCEPT ![i] = NotYet]
    /\ result' = [result EXCEPT ![i] = NoResult]
    /\ UNCHANGED <<proc, env, text, passes>>

Next ==
    \E i \in Sequential :
        \/ \E t \in Tools : \E a \in ToolArgs(t) : \E g \in GeneratedIds :
              Invoke(i, t, a, g)
        \/ Fetch(i)
        \/ SelectAccount(i)
        \/ Complete(i)
        \/ Respond(i)

Spec == Init /\ [][Next]_vars

-----------------------------------------------------------------------------
(* truncateIfNeeded on its own: a text is truncated again and again *)

\* lengths on both sides of the limit and of the cut at limit - 200
TruncatedLengths ==
    {0, 1, BigBody, 10 * BigBody, 536870888}
    \cup {CHARACTER_LIMIT + d : d \in {-201, -200, -199, -1, 0, 1, 199, 200, 201}}

TruncatedTexts ==
    { head \o Fill(k) :
        head \in {<<>>, Lit("abc"), Lit("[") \o Lit("\n") \o Spaces(2)},
        k \in TruncatedLengths }

InitTruncate ==
    /\ env \in Environments
    /\ proc = Running(env)
    /\ pc = [i \in Invocations |-> "idle"]
    /\ tool = [i \in Invocations |-> "none"]
    /\ args = [i \in Invocations |-> NoFields]
    /\ sent = [i \in Invocations |-> <<>>]
    /\ got = [i \in Invocations |-> <<>>]
    /\ outcomes = [i \in Invocations |-> <<>>]
    /\ call = [i \in Invocations |-> NotYet]
    /\ formatted = [i \in Invocations |-> NotYet]
    /\ result = [i \in Invocations |-> NoResult]
    /\ text \in TruncatedTexts
    /\ passes = 0

Truncate ==
    /\ passes < MaxPasses
    /\ text' = truncateIfNeeded(text, CHARACTER_LIMIT)
    /\ passes' = passes + 1
    /\ UNCHANGED <<proc, env, pc, tool, args, sent, got, outcomes, call, formatted,
                   result>>

NextTruncate == Truncate

SpecTruncate == InitTruncate /\ [][NextTruncate]_vars

-----------------------------------------------------------------------------
(* formatBarionError on its own: an error message is classified *)

\* the words the tests of formatBarionError look for
Markers ==
    {"HTTP 401", "HTTP 403", "HTTP 400", "HTTP 404", "HTTP 500", "HTTP 502",
     "HTTP 503", "Barion API Error:", "ECONNREFUSED", "ENOTFOUND", "fetch failed"}

\* the words the templates look for, and a word none of them looks for
Hints ==
    {"payment", "transaction", "account", "currency", "email", "amount",
     "paymenttype", "payee", "https://api.test.barion.com", "ModelValidation",
     "PaymentNotFound", "InvalidPaymentState", "InsufficientFunds",
     "AmountTooHigh", "Expired", "Unauthorized", "boom",
     "no transaction of this payment"}

\* error.message: some markers in some order, then at most one hint
ErrorMessages ==
    { Join([k \in 1..Len(ms) |-> Lit(ms[k])], " ") \o h :
        ms \in SeqUpTo(Markers, MaxMarkers),
        h \in {<<>>} \cup {Lit(": ") \o Lit(w) : w \in Hints} }

\* the handlers whose catch branch is looked at
FailedTools == {"refund_payment", "send_money"}

InitFormatError ==
    /\ env \in Environments
    /\ proc = Running(env)
    /\ pc = [i \in Invocations |-> "idle"]
    /\ tool \in {[i \in Invocations |-> IF i \in Sequential THEN t ELSE "none"]
                   : t \in FailedTools}
    /\ args = [i \in Invocations |-> NoFields]
    /\ sent = [i \in Invocations |-> <<>>]
    /\ got = [i \in Invocations |-> <<>>]
    /\ outcomes = [i \in Invocations |-> <<>>]
    /\ call = [i \in Invocations |-> NotYet]
    /\ formatted = [i \in Invocations |-> NotYet]
    /\ result = [i \in Invocations |-> NoResult]
    /\ text \in ErrorMessages
    /\ passes = 0

\* formatBarionError(operationName, new Error(text))
FormatError(i) ==
    /\ passes = 0
    /\ formatted' = [formatted EXCEPT ![i] =
                        Return(formatBarionError(OperationName(tool[i]), text))]
    /\ passes' = 1
    /\ UNCHANGED <<proc, env, pc, tool, args, sent, got, outcomes, call, result, text>>

NextFormatError == \E i \in Sequential : FormatError(i)

SpecFormatError == InitFormatError /\ [][NextFormatError]_vars

-----------------------------------------------------------------------------
(* main on its own: the process starts, and the runtime calls its tools *)

\* the invocations the runtime makes of a tool once the server is connected:
\* its arguments in one presentation
StartupArgs(t) == {a \in ToolArgs(t) : a.format = "json" /\ a.detail = "concise"}

InitStartup ==
    /\ \E argv \in Flags : \E environ \in EnvironmentVariables :
          proc = Entered(argv, environ)
    /\ env = "test"
    /\ pc = [i \in Invocations |-> "idle"]
    /\ tool = [i \in Invocations |-> "none"]
    /\ args = [i \in Invocations |-> NoFields]
    /\ sent = [i \in Invocations |-> <<>>]
    /\ got = [i \in Invocations |-> <<>>]
    /\ outcomes = [i \in Invocations |-> <<>>]
    /\ call = [i \in Invocations |-> NotYet]
    /\ formatted = [i \in Invocations |-> NotYet]
    /\ result = [i \in Invocations |-> NoResult]
    /\ text = <<>>
    /\ passes = 0

\* main resolves the credentials and creates the server, or exits
Create ==
    /\ proc.stage = "entered"
    /\ proc' = main_Create(proc)
    /\ UNCHANGED <<env, pc, tool, args, sent, got, outcomes, call, formatted,
                   result, text, passes>>

\* main calls configureAllTools: the clients are constructed and the tools
\* registered
Configure ==
    /\ proc.stage = "created"
    /\ proc' = configureAllTools(proc)
    /\ env' = proc.credentials.environment
    /\ UNCHANGED <<pc, tool, args, sent, got, outcomes, call, formatted,
                   result, text, passes>>

\* the stdio transport is connected
Connect ==
    /\ proc.stage = "configured"
    /\ proc' = main_Connect(proc)
    /\ UNCHANGED <<env, pc, tool, args, sent, got, outcomes, call, formatted,
                   result, text, passes>>

\* connecting fails: the error is logged and the process exits
Fatal ==
    /\ proc.stage = "configured"
    /\ proc' = main_Fatal(proc)
    /\ UNCHANGED <<env, pc, tool, args, sent, got, outcomes, call, formatted,
                   result, text, passes>>

\* the runtime calls a tool of the catalog of the connected server
InvokeRegistered(i, t, a, generated) ==
    /\ proc.stage = "connected"
    /\ t \in proc.catalog
    /\ Invoke(i, t, a, generated)

NextStartup ==
    \/ Create
    \/ Configure
    \/ Connect
    \/ Fatal
    \/ \E i \in Sequential : \E t \in Tools : \E a \in StartupArgs(t) :
          \E g \in GeneratedIds : InvokeRegistered(i, t, a, g)

SpecStartup == InitStartup /\ [][NextStartup]_vars

-----------------------------------------------------------------------------
(* get_user_history on its own: the arguments of a call meet the schema *)

\* arguments of a tools/call request for get_user_history, as the caller
\* wrote them: limits on both sides of the bounds of the schema
CallArgs ==
    { p @@ l @@ c @@ t :
        p \in Presentation,
        l \in Optional("limit", {0, 1, 10, 20, 21, 50}),
        c \in Optional("currency", {"HUF"}),
        t \in Optional("lastRequestTime", {"2025-10-08T12:30:22.955Z"}) }

\* limit: z.number().int().min(1).max(20).optional()
limitSchema(a) == Has(a, "limit") => a.limit \in 1..20

InitUserHistory ==
    /\ env \in Environments
    /\ proc = Running(env)
    /\ pc = [i \in Invocations |-> "idle"]
    /\ tool = [i \in Invocations |-> "none"]
    /\ args = [i \in Invocations |-> NoFields]
    /\ sent = [i \in Invocations |-> <<>>]
    /\ got = [i \in Invocations |-> <<>>]
    /\ outcomes = [i \in Invocations |-> <<>>]
    /\ call = [i \in Invocations |-> NotYet]
    /\ formatted = [i \in Invocations |-> NotYet]
    /\ result = [i \in Invocations |-> NoResult]
    /\ text = <<>>
    /\ passes = 0

\* the arguments meet the schema: the server calls the handler
AcceptCall(i, a) ==
    /\ limitSchema(a)
    /\ Invoke(i, "get_user_history", a, "")

\* the arguments do not meet the schema: the server answers the call with
\* an error and the handler is not called
RejectCall(i, a) ==
    /\ pc[i] = "idle"
    /\ ~limitSchema(a)
    /\ pc' = [pc EXCEPT ![i] = "rejected"]
    /\ tool' = [tool EXCEPT ![i] = "get_user_history"]
    /\ args' = [args EXCEPT ![i] = a]
    /\ UNCHANGED <<proc, env, sent, got, outcomes, call, formatted, result,
                   text, passes>>

\* the error went to the caller; nothing of the call is kept
Forget(i) ==
    /\ pc[i] = "rejected"
    /\ pc' = [pc EXCEPT ![i] = "idle"]
    /\ tool' = [tool EXCEPT ![i] = "none"]
    /\ args' = [args EXCEPT ![i] = NoFields]
    /\ sent' = [sent EXCEPT ![i] = <<>>]
    /\ call' = [call EXCEPT ![i] = NotYet]
    /\ result' = [result EXCEPT ![i] = NoResult]
    /\ UNCHANGED <<proc, env, got, outcomes, formatted, text, passes>>

NextUserHistory ==
    \E i \in Sequential :
        \/ \E a \in CallArgs : AcceptCall(i, a)
        \/ \E a \in CallArgs : RejectCall(i, a)
        \/ Forget(i)
        \/ Respond(i)

SpecUserHistory == InitUserHistory /\ [][NextUserHistory]_vars

-----------------------------------------------------------------------------
(* Two invocations at once: handlers suspended at their upstream calls *)

\* the tools and arguments of the invocations that run at once
ConcurrentCalls ==
    { <<"send_money", a>> : a \in { b \in ToolArgs("send_money") :
          b.format = "markdown" /\ b.detail = "concise" /\ b.currency = "EUR" } }
    \cup { <<"get_payment_state", a>> : a \in { b \in ToolArgs("get_payment_state") :
          b.format = "markdown" /\ b.detail = "detailed" } }
    \cup { <<"refund_payment", a>> : a \in { b \in ToolArgs("refund_payment") :
          b.format = "json" /\ b.detail = "concise" /\ Truthy(b, "comment") } }

\* the answers of the upstream to them: fetch rejects, an empty 404, one
\* upstream error under a 200, a payload with at most one account
FewResponses(endpoint) ==
    { r \in Responses(endpoint) :
        \/ r.kind = "rejected"
        \/ r.status = 404 /\ ~r.body.parses /\ r.body.raw = <<>>
        \/ /\ r.status = 200 /\ r.body.parses
           /\ IF Has(r.body.json, "Errors")
              THEN /\ DOMAIN r.body.json = {"Errors"}
                   /\ Len(r.body.json.Errors) = 1
                   /\ r.body.json.Errors[1].ErrorCode = "InsufficientFunds"
              ELSE Has(r.body.json, "Accounts") => Len(r.body.json.Accounts) <= 1 }

\* fetch settles for one of the invocations
Settle_Crossed(i) ==
    /\ pc[i] \in {"accounts", "fetch"}
    /\ \E r \in FewResponses(Last(sent[i]).endpoint) :
          got' = [j \in Invocations |->
                    IF j = i \/ pc[j] \in {"accounts", "fetch"}
                    THEN Append(got[j], r) ELSE got[j]]
    /\ pc' = [j \in Invocations |->
                IF pc[j] = "accounts" THEN "accounts-fetched"
                ELSE IF pc[j] = "fetch" THEN "fetched" ELSE pc[j]]
    /\ UNCHANGED <<proc, env, tool, args, sent, outcomes, call, formatted, result,
                   text, passes>>

Settle(i) ==
    /\ pc[i] \in {"accounts", "fetch"}
    /\ \E r \in FewResponses(Last(sent[i]).endpoint) :
          got' = [got EXCEPT ![i] = Append(@, r)]
    /\ pc' = [pc EXCEPT ![i] = IF pc[i] = "accounts" THEN "accounts-fetched"
                               ELSE "fetched"]
    /\ UNCHANGED <<proc, env, tool, args, sent, outcomes, call, formatted, result,
                   text, passes>>

NextConcurrent ==
    \E i \in Invocations :
        \/ \E c \in ConcurrentCalls : Invoke(i, c[1], c[2], "")
        \/ Settle(i)
        \/ SelectAccount(i)
        \/ Complete(i)
        \/ Respond(i)

SpecConcurrent == Init /\ [][NextConcurrent]_vars

-----------------------------------------------------------------------------
(* formatWalletStatement on its own: lists on both sides of ten entries *)

\* the TransactionTime of the k-th day of a month
Day(k) == "2025-01-" \o (IF k < 10 THEN "0" ELSE "") \o ToString(k)

\* the statement entry of day k: every other entry is a debit, every third
\* entry has no Type
EntryOfDay(k) ==
    [TransactionId |-> "t-" \o ToString(k), TransactionTime |-> Day(k),
     Amount |-> IF k % 2 = 0 THEN -k ELSE k, Currency |-> "EUR"]
    @@ (IF k % 3 = 0 THEN NoFields ELSE [Type |-> "Transfer"])

\* statements of n entries: the days from first on, forwards or backwards
Statements ==
    { [k \in 1..n |-> EntryOfDay(IF forwards THEN first + k - 1 ELSE first + n - k)]
        : n \in 0..MaxListed, first \in {1, 5}, forwards \in BOOLEAN }

InitStatement ==
    /\ env \in Environments
    /\ proc = Running(env)
    /\ pc = [i \in Invocations |-> "idle"]
    /\ tool = [i \in Invocations |->
                 IF i \in Sequential THEN "get_wallet_statement" ELSE "none"]
    /\ \E d \in {"concise", "detailed"} :
          args = [i \in Invocations |->
                    IF i \in Sequential THEN [format |-> "markdown", detail |-> d]
                    ELSE NoFields]
    /\ sent = [i \in Invocations |-> <<>>]
    /\ got = [i \in Invocations |-> <<>>]
    /\ outcomes = [i \in Invocations |-> <<>>]
    /\ \E l \in Statements :
          call = [i \in Invocations |->
                    IF i \in Sequential THEN Return(l) ELSE NotYet]
    /\ formatted = [i \in Invocations |-> NotYet]
    /\ result = [i \in Invocations |-> NoResult]
    /\ text = <<>>
    /\ passes = 0

\* formatWalletStatement(data, detail)
FormatStatement(i) ==
    /\ passes = 0
    /\ formatted' = [formatted EXCEPT ![i] =
                        formatWalletStatement(call[i].value, args[i].detail)]
    /\ passes' = 1
    /\ UNCHANGED <<proc, env, pc, tool, args, sent, got, outcomes, call, result, text>>

NextStatement == \E i \in Sequential : FormatStatement(i)

SpecStatement == InitStatement /\ [][NextStatement]_vars

-----------------------------------------------------------------------------
(* Properties *)

\* the request() calls made so far: invocation and position in its history
Calls == {<<i, k>> \in Invocations \X (1..2) : k <= Len(outcomes[i])}

Ok(r) == r.kind = "response" /\ r.status \in 200..299

\* the parsed body has no Errors property, or an empty Errors list
NoErrors(r) ==
    /\ r.kind = "response"
    /\ r.body.parses
    /\ (Has(r.body.json, "Errors") => r.body.json.Errors = <<>>)

\* C1: a request() call of either client returns the parsed body if and only
\* if the status is 2xx and the Errors of the parsed body are absent or
\* empty; in every other case it throws
C1_ReturnsIffOkAndNoErrors ==
    \A c \in Calls :
        LET r == got[c[1]][c[2]]
            o == outcomes[c[1]][c[2]]
        IN  /\ ~o.threw <=> (Ok(r) /\ NoErrors(r))
            /\ ~o.threw => o.value = r.body.json
            /\ o.threw <=> ~Has(o, "value")

\* send_money selected an account and its transfer returned a body with an
\* empty Errors list
C1_Witness ==
    \E c \in Calls :
        LET r == got[c[1]][c[2]]
            o == outcomes[c[1]][c[2]]
        IN  /\ tool[c[1]] = "send_money"
            /\ c[2] = 2
            /\ ~o.threw
            /\ r.status = 200
            /\ Has(r.body.json, "Errors")
            /\ ~outcomes[c[1]][1].threw

\* the thrown message is the transport error of the response: the status
\* first, the raw body text last
IsTransportError(message, r) ==
    /\ Len(message) >= 1
    /\ message[1] = Lit("HTTP " \o ToString(r.status))[1]
    /\ Len(message) >= Len(BodyText(r.body))
    /\ SubSeq(message, Len(message) - Len(BodyText(r.body)) + 1, Len(message))
         = BodyText(r.body)

\* the thrown message is the upstream error of one of the clients
IsUpstreamError(message) ==
    /\ Len(message) >= 1
    /\ message[1].s \in {"Barion API Error:", "Barion Wallet API Error:"}

\* C2: every non-2xx response makes request() throw the transport error
\* with the status and the raw body, also when the body holds a non-empty
\* Errors list; the upstream error is thrown on 2xx responses only
C2_StatusBeforeErrors ==
    \A c \in Calls :
        LET r == got[c[1]][c[2]]
            o == outcomes[c[1]][c[2]]
        IN  /\ (r.kind = "response" /\ ~Ok(r)) =>
                  (o.threw /\ IsTransportError(o.message, r)
                   /\ ~IsUpstreamError(o.message))
            /\ (o.threw /\ IsUpstreamError(o.message)) => Ok(r)

\* a non-2xx response with a non-empty Errors list was turned into the
\* transport error
C2_Witness ==
    \E c \in Calls :
        LET r == got[c[1]][c[2]]
            o == outcomes[c[1]][c[2]]
        IN  /\ r.kind = "response" /\ r.status = 400
            /\ r.body.parses /\ Has(r.body.json, "Errors")
            /\ Len(r.body.json.Errors) = 2
            /\ o.threw
            /\ tool[c[1]] \in PaymentTools

\* the non-empty values of the properties fs of an error entry, in order
Details(e, fs) == SelectSeq([k \in 1..Len(fs) |-> Prop(e, fs[k])],
                            LAMBDA v : \E f \in DOMAIN e : v = e[f] /\ v # "")

RECURSIVE Flatten(_)
Flatten(ls) == IF ls = <<>> THEN <<>> ELSE Head(ls) \o Flatten(Tail(ls))

\* the words of a message that are values of the entries of errs
Mentioned(message, errs) ==
    SelectSeq(Words(message),
              LAMBDA w : \E k \in 1..Len(errs) : \E f \in DOMAIN errs[k] :
                             w = errs[k][f] /\ w # "")

\* what the wallet client names of an entry: the code, then the title, or
\* the description when there is no title
WalletDetails(e) ==
    Details(e, IF Truthy(e, "Title") THEN <<"ErrorCode", "Title">>
               ELSE <<"ErrorCode", "Description">>)

UpstreamErrors == {c \in Calls : LET r == got[c[1]][c[2]]
                                 IN  Ok(r) /\ r.body.parses /\ ~NoErrors(r)}

\* C3 as stated: on a 2xx response with a non-empty Errors list the thrown
\* message of either client holds the code, the title and the description
\* of every entry, in list order
C3_AllDetailsBothClients ==
    \A c \in UpstreamErrors :
        LET errs == got[c[1]][c[2]].body.json.Errors
            o == outcomes[c[1]][c[2]]
        IN  /\ o.threw
            /\ IsUpstreamError(o.message)
            /\ Mentioned(o.message, errs)
                 = Flatten([k \in 1..Len(errs) |->
                              Details(errs[k], <<"ErrorCode", "Title", "Description">>)])

\* C3: on a 2xx response with a non-empty Errors list the call throws the
\* upstream error; the message of BarionClient holds the code, the title
\* and the description of every entry in list order, the message of
\* WalletClient the code and the title of every entry in list order, with
\* the description in the place of a missing title only
C3_DetailsPerClient ==
    \A c \in UpstreamErrors :
        LET errs == got[c[1]][c[2]].body.json.Errors
            o == outcomes[c[1]][c[2]]
        IN  /\ o.threw
            /\ IsUpstreamError(o.message)
            /\ Mentioned(o.message, errs)
                 = Flatten([k \in 1..Len(errs) |->
                              IF sent[c[1]][c[2]].client = "wallet"
                              THEN WalletDetails(errs[k])
                              ELSE Details(errs[k],
                                           <<"ErrorCode", "Title", "Description">>)])

\* a wallet call threw on a 2xx response with two error entries, the second
\* with a title and a description
C3_Witness ==
    \E c \in UpstreamErrors :
        LET errs == got[c[1]][c[2]].body.json.Errors
        IN  /\ sent[c[1]][c[2]].client = "wallet"
            /\ Len(errs) = 2
            /\ Truthy(errs[2], "Title") /\ Truthy(errs[2], "Description")
            /\ ~Truthy(errs[1], "Title") /\ Truthy(errs[1], "Description")
            /\ outcomes[c[1]][c[2]].threw

\* the send_money invocations that were given no source account
AutoSelects ==
    {i \in Invocations : tool[i] = "send_money" /\ ~Truthy(args[i], "sourceAccountId")}

\* the account list getAccounts returned to sendMoney
Listed(i) == getAccounts_Result(outcomes[i][1].value)

InCurrency(i) ==
    {k \in 1..Len(Listed(i)) : Prop(Listed(i)[k], "Currency") = args[i].currency}

Transfers(i) == {k \in 1..Len(sent[i]) : sent[i][k].endpoint = "/v2/Transfer/Email"}

IsError(r) == Has(r, "isError") /\ r.isError

\* C4: when sendMoney is called without a source account and the list
\* getAccounts returned has no account in the currency, the call throws
\* 'No account found with currency <currency>', the handler returns the
\* error result, and no transfer request is issued
C4_NoAccountNoTransfer ==
    \A i \in AutoSelects :
        (Len(outcomes[i]) >= 1 /\ ~outcomes[i][1].threw /\ InCurrency(i) = {}) =>
            /\ pc[i] = "done"
            /\ call[i].threw
            /\ Words(call[i].message)
                 = <<"No account found with currency ", args[i].currency>>
            /\ IsError(result[i])
            /\ Transfers(i) = {}
            /\ Len(sent[i]) = 1

\* two accounts were listed, none of them in the currency of the transfer
C4_Witness ==
    \E i \in AutoSelects :
        /\ Len(outcomes[i]) = 1 /\ ~outcomes[i][1].threw
        /\ Len(Listed(i)) = 2
        /\ InCurrency(i) = {}
        /\ pc[i] = "done"

\* C5: when sendMoney selects the source account itself, the transfer
\* request names the first account of the list, in list order, whose
\* currency is the requested one; when a source account id is supplied,
\* the transfer request names that id
C5_FirstMatchOrSupplied ==
    \A i \in Invocations : tool[i] = "send_money" =>
        \A k \in Transfers(i) :
            IF i \in AutoSelects
            THEN /\ k = 2
                 /\ \E m \in InCurrency(i) :
                       /\ \A n \in InCurrency(i) : m <= n
                       /\ sent[i][k].body.SourceAccountId = Listed(i)[m].Id
            ELSE /\ k = 1
                 /\ sent[i][k].body.SourceAccountId = args[i].sourceAccountId

\* the list held two accounts in the currency and the transfer was issued
C5_Witness ==
    \E i \in AutoSelects :
        /\ Len(sent[i]) = 2
        /\ Cardinality(InCurrency(i)) = 2
        /\ Listed(i)[1].Id = "acc-3"
        /\ sent[i][2].body.SourceAccountId = "acc-3"

\* C6: when sendMoney selects the source account itself, a transfer
\* request is issued only after the getAccounts request returned; when the
\* getAccounts request failed, the handler returns the error result and no
\* transfer request is issued
C6_TransferAfterAccounts ==
    \A i \in AutoSelects :
        /\ Transfers(i) # {} =>
              /\ sent[i][1].endpoint = "/v2/accounts"
              /\ Len(outcomes[i]) >= 1
              /\ ~outcomes[i][1].threw
        /\ (Len(outcomes[i]) >= 1 /\ outcomes[i][1].threw) =>
              /\ pc[i] = "done"
              /\ IsError(result[i])
              /\ call[i] = outcomes[i][1]
              /\ Transfers(i) = {}

\* the getAccounts request of a send_money invocation failed
C6_Witness ==
    \E i \in AutoSelects :
        /\ Len(outcomes[i]) = 1
        /\ outcomes[i][1].threw
        /\ got[i][1].kind = "response"
        /\ IsError(result[i])

\* the requests an invocation issues: one; for send_money without a source
\* account the getAccounts request and then at most one transfer request;
\* for send_money with a source account the transfer request; after a
\* failed request none
OneRequest(i) ==
    /\ Len(sent[i]) <= IF i \in AutoSelects THEN 2 ELSE 1
    /\ tool[i] = "send_money" =>
          IF i \in AutoSelects
          THEN /\ Len(sent[i]) >= 1
               /\ sent[i][1].endpoint = "/v2/accounts"
               /\ Len(sent[i]) = 2 => sent[i][2].endpoint = "/v2/Transfer/Email"
          ELSE /\ Len(sent[i]) = 1
               /\ sent[i][1].endpoint = "/v2/Transfer/Email"
    /\ \A k \in 1..Len(outcomes[i]) : outcomes[i][k].threw => Len(sent[i]) = k
    /\ \A k \in 1..Len(got[i]) : got[i][k].kind = "rejected" => Len(sent[i]) = k

\* the invocations of get_user_history with no query parameter
EmptyQueries ==
    {i \in Invocations :
        /\ tool[i] = "get_user_history"
        /\ ~Truthy(args[i], "lastRequestTime")
        /\ ~Truthy(args[i], "lastVisibleItemId")
        /\ ~Has(args[i], "limit")
        /\ ~Truthy(args[i], "currency")}

C8_OneTextBlock ==
    \A i \in Invocations :
        /\ pc[i] = "done" =>
              /\ Len(result[i].content) = 1
              /\ result[i].content[1].type = "text"
              /\ DOMAIN result[i].content[1] = {"type", "text"}
              /\ IsError(result[i]) <=> (call[i].threw \/ formatted[i].threw)
              /\ (\E k \in 1..Len(outcomes[i]) : outcomes[i][k].threw)
                    => IsError(result[i])
        /\ pc[i] \in {"idle", "accounts", "accounts-fetched", "fetch", "fetched", "done"}

\* the client call returned and the formatter threw: the result is flagged
C8_Witness ==
    \E i \in Invocations :
        /\ pc[i] = "done"
        /\ ~call[i].threw
        /\ formatted[i].threw
        /\ IsError(result[i])

\* C9 as stated: the text of every result, of the try branch and of the
\* catch branch, is at most CHARACTER_LIMIT characters long
C9_EveryTextWithinLimit ==
    \A i \in Invocations :
        pc[i] = "done" => TextLen(result[i].content[1].text) <= CHARACTER_LIMIT

\* C10: truncating a truncated text returns it unchanged, and a truncated
\* text is within the limit
C10_TruncateIdempotent ==
    [][passes >= 1 => (text' = text /\ TextLen(text) <= CHARACTER_LIMIT)]_vars

\* a text longer than the limit was truncated twice
C10_Witness ==
    /\ passes = 2
    /\ TextLen(text) > CHARACTER_LIMIT - 200
    /\ \E k \in 1..Len(text) : text[k].s = "\n\n[... Output truncated. Total length: "

\* the text t starts with the text p: the pieces of p are those of t, the
\* last of them possibly cut short
StartsWith(t, p) ==
    /\ Len(p) <= Len(t)
    /\ \A k \in 1..Len(p) :
          /\ p[k].s = t[k].s
          /\ IF k < Len(p) THEN p[k].n = t[k].n ELSE p[k].n <= t[k].n

\* C11: truncateIfNeeded returns a text of at most CHARACTER_LIMIT
\* characters unchanged; a longer text is changed, and the result is the
\* first CHARACTER_LIMIT - 200 characters of the text followed by the marker
\* that states the length of the text
C11_UnchangedWithinLimit ==
    [][passes = 0 =>
          IF TextLen(text) <= CHARACTER_LIMIT
          THEN text' = text
          ELSE /\ text' # text
               /\ \E m \in 1..Len(text') :
                     /\ TextLen(SubSeq(text', 1, m)) = CHARACTER_LIMIT - 200
                     /\ StartsWith(text, SubSeq(text', 1, m))
                     /\ Len(text') >= m + 2
                     /\ text'[m + 1].s = "\n\n[... Output truncated. Total length: "
                     /\ <<text'[m + 2]>> = Num(TextLen(text))]_vars

\* a text of exactly CHARACTER_LIMIT characters went through unchanged
C11_Witness ==
    /\ passes = 1
    /\ TextLen(text) = CHARACTER_LIMIT
    /\ \A k \in 1..Len(text) :
          text[k].s # "\n\n[... Output truncated. Total length: "

\* the handlers whose client call has returned a payload
Returned == {i \in Invocations : pc[i] = "done" /\ ~call[i].threw}

\* JSON.stringify(payload, null, 2) of the payload the client call returned
PrettyJson(i) == Stringify(call[i].value, ReturnsArray(tool[i]))

DetailLevels == {"concise", "detailed"}

\* with the formatter of the tool, and without a formatter
FormatterChoices(i) == {FormatterOf(tool[i]), [name |-> "none"]}

\* C12 as stated: in the json format formatResponse returns the
\* pretty-printed JSON of the payload, for every payload, both detail levels,
\* with and without a formatter
C12_JsonIsPrettyJson ==
    \A i \in Returned :
        /\ \A d \in DetailLevels : \A f \in FormatterChoices(i) :
              formatResponse(call[i].value, ReturnsArray(tool[i]), "json", d, f)
                = Return(PrettyJson(i))
        /\ args[i].format = "json" => result[i].content[1].text = PrettyJson(i)

\* C12: in the json format formatResponse returns the pretty-printed JSON of
\* the payload when that is at most CHARACTER_LIMIT characters long, and
\* its truncation otherwise, for both detail levels, with and without a
\* formatter; a handler invoked with the json format returns that text
C12_JsonIsTruncatedPrettyJson ==
    \A i \in Returned :
        LET expected == IF TextLen(PrettyJson(i)) <= CHARACTER_LIMIT
                        THEN PrettyJson(i)
                        ELSE truncateIfNeeded(PrettyJson(i), CHARACTER_LIMIT)
        IN  /\ \A d \in DetailLevels : \A f \in FormatterChoices(i) :
                  formatResponse(call[i].value, ReturnsArray(tool[i]), "json", d, f)
                    = Return(expected)
            /\ args[i].format = "json" =>
                  /\ ~IsError(result[i])
                  /\ result[i].content[1].text = expected

\* a handler invoked with the json format and the concise detail returned
\* the indented JSON of a list of two accounts
C12_Witness ==
    \E i \in Returned :
        /\ tool[i] = "get_wallet_accounts"
        /\ args[i].format = "json" /\ args[i].detail = "concise"
        /\ Len(call[i].value) = 2
        /\ TextLen(PrettyJson(i)) <= CHARACTER_LIMIT
        /\ result[i].content[1].text = PrettyJson(i)
        /\ \E k \in 1..Len(PrettyJson(i)) : <<PrettyJson(i)[k]>> = Spaces(2)

\* the tests of formatBarionError in their order: the template and the
\* words its test looks for
Tests ==
    << [template |-> "authentication", words |-> {"HTTP 401", "HTTP 403"}],
       [template |-> "validation", words |-> {"HTTP 400"}],
       [template |-> "not-found", words |-> {"HTTP 404"}],
       [template |-> "server", words |-> {"HTTP 500", "HTTP 502", "HTTP 503"}],
       [template |-> "upstream", words |-> {"Barion API Error:"}],
       [template |-> "network", words |-> {"ECONNREFUSED", "ENOTFOUND", "fetch failed"}] >>

\* the message holds one of the words
Mentions(message, words) == \E k \in 1..Len(message) : message[k].s \in words

\* the template of the earliest test the message matches
EarliestTemplate(message) ==
    LET matching == {k \in 1..Len(Tests) : Mentions(message, Tests[k].words)}
    IN  IF matching = {} THEN "generic"
        ELSE Tests[CHOOSE k \in matching : \A m \in matching : k <= m].template

\* the heading each template starts with, after the cross mark
Headings ==
    { [template |-> "authentication", at |-> 2, heading |-> " Authentication Failed: "],
      [template |-> "validation", at |-> 2, heading |-> " Validation Error: "],
      [template |-> "not-found", at |-> 2, heading |-> " Not Found: "],
      [template |-> "server", at |-> 2, heading |-> " Server Error: "],
      [template |-> "network", at |-> 2, heading |-> " Network Error: "],
      [template |-> "upstream", at |-> 4, heading |-> " Failed - Barion API Error\n\n"],
      [template |-> "generic", at |-> 4, heading |-> " failed: "] }

\* the templates a text of formatBarionError starts as
TemplatesOf(output) ==
    { h.template : h \in { g \in Headings : /\ Len(output) >= g.at
                                            /\ output[1].s = "U+274C"
                                            /\ output[g.at].s = g.heading } }

\* the invocations formatBarionError has been applied for
Classified == {i \in Sequential : passes = 1 /\ ~formatted[i].threw
                                  /\ Has(formatted[i], "value")}

\* C13: formatBarionError emits exactly one template, that of the earliest
\* test, in the order authentication, validation, not-found, server,
\* upstream, network, that the message matches, and the generic one when it
\* matches none
C13_FirstMatchWins ==
    \A i \in Classified :
        TemplatesOf(formatted[i].value) = {EarliestTemplate(text)}

\* a message that names 'fetch failed' and then 'HTTP 404' got the
\* not-found template
C13_Witness ==
    \E i \in Classified :
        /\ Len(text) >= 3
        /\ text[1].s = "fetch failed"
        /\ text[3].s = "HTTP 404"
        /\ TemplatesOf(formatted[i].value) = {"not-found"}

\* C14 as stated: the result of a handler whose client call failed on a 2xx
\* response with a non-empty Errors list, of either client, is the upstream
\* template of formatBarionError
C14_UpstreamErrorTemplate ==
    \A c \in UpstreamErrors :
        pc[c[1]] = "done" =>
            TemplatesOf(result[c[1]].content[1].text) = {"upstream"}

\* the remediation texts of the not-found template
NotFoundAdvice ==
    [payment |-> "\n**Likely Issue:** Payment ID does not exist or has been deleted.\n"
                 \o "**Fix:** Use get_payment_state with a valid PaymentId from a recent "
                 \o "start_payment call",
     transaction |-> "\n**Likely Issue:** Transaction ID not found.\n"
                     \o "**Fix:** Get valid TransactionId from get_payment_state response "
                     \o "before attempting refund/capture",
     account |-> "\n**Likely Issue:** Account ID not found.\n"
                 \o "**Fix:** Use get_wallet_accounts to retrieve valid Account IDs"]

\* the remediation texts a text of formatBarionError holds
AdviceIn(output) ==
    {a \in DOMAIN NotFoundAdvice : \E k \in 1..Len(output) : output[k].s = NotFoundAdvice[a]}

\* the message is the one of a 404 response: `HTTP 404: ...`
Reports404(message) == Len(message) >= 1 /\ message[1].s = "HTTP 404"

\* C15 as stated: for a message that reports HTTP 404 and mentions
\* 'transaction' the text holds the transaction remediation of the not-found
\* template, and not the payment or the account one
C15_TransactionAdvice ==
    \A i \in Classified :
        (Reports404(text) /\ LowerIncludes(text, "transaction")) =>
            /\ TemplatesOf(formatted[i].value) = {"not-found"}
            /\ AdviceIn(formatted[i].value) = {"transaction"}

\* C15: for a message that reports HTTP 404, names none of HTTP 401, HTTP
\* 403 and HTTP 400, mentions 'transaction' and does not mention 'payment',
\* the text is the not-found template with the transaction remediation and
\* neither the payment nor the account one
C15_TransactionAdviceUnlessPayment ==
    \A i \in Classified :
        ( /\ Reports404(text)
          /\ ~Mentions(text, {"HTTP 401", "HTTP 403", "HTTP 400"})
          /\ LowerIncludes(text, "transaction")
          /\ ~LowerIncludes(text, "payment") ) =>
            /\ TemplatesOf(formatted[i].value) = {"not-found"}
            /\ AdviceIn(formatted[i].value) = {"transaction"}

\* the message 'HTTP 404: transaction' was formatted
C15_Witness ==
    \E i \in Classified :
        /\ Words(text) = <<"HTTP 404", ": ", "transaction">>
        /\ AdviceIn(formatted[i].value) = {"transaction"}

\* the text t holds the text p, piece by piece, in one place
Holds(t, p) ==
    \E k \in 0..(Len(t) - Len(p)) : SubSeq(t, k + 1, k + Len(p)) = p

\* C16: whatever template formatBarionError chooses, the text holds the
\* error message as it was given and the operation name
C16_MessageAndOperation ==
    \A i \in Classified :
        /\ Holds(formatted[i].value, text)
        /\ Holds(formatted[i].value, Lit(OperationName(tool[i])))
        /\ TextLen(formatted[i].value)
             > TextLen(text) + Len(OperationName(tool[i]))

\* a message of three words, the last one an error code, was formatted with
\* the upstream template
C16_Witness ==
    \E i \in Classified :
        /\ Words(text) = <<"Barion API Error:", ": ", "InsufficientFunds">>
        /\ TemplatesOf(formatted[i].value) = {"upstream"}
        /\ Holds(formatted[i].value, text)
        /\ tool[i] = "send_money"

\* the markers of the concise payment summary and the Status each stands for
StatusMarkers ==
    { [status |-> "Succeeded", marker |-> " Payment completed successfully"],
      [status |-> "Failed", marker |-> " Payment failed"],
      [status |-> "Prepared", marker |-> " Waiting for customer to complete payment"] }

\* the Status values whose marker a text holds
MarkedIn(output) ==
    { m.status : m \in { n \in StatusMarkers :
                           \E k \in 1..Len(output) : output[k].s = n.marker } }

\* the handlers of get_payment_state whose client call returned
PaymentStates == {i \in Returned : tool[i] = "get_payment_state"}

\* C17: the concise text of formatPaymentState holds the completion marker
\* exactly when Status is Succeeded, the failure marker exactly when Status
\* is Failed, the waiting marker exactly when Status is Prepared, and never
\* two of them; the handler returns that text in the concise markdown mode
C17_StatusMarker ==
    \A i \in PaymentStates :
        LET concise == formatPaymentState(call[i].value, "concise")
            status == Prop(call[i].value, "Status")
        IN  /\ ~concise.threw
            /\ MarkedIn(concise.value) = {status} \cap {"Succeeded", "Failed", "Prepared"}
            /\ Cardinality(MarkedIn(concise.value)) <= 1
            /\ (args[i].format = "markdown" /\ args[i].detail = "concise") =>
                  result[i].content[1].text = concise.value

\* the concise summary of a payment whose Status is Failed was returned
C17_Witness ==
    \E i \in PaymentStates :
        /\ args[i].format = "markdown" /\ args[i].detail = "concise"
        /\ Prop(call[i].value, "Status") = "Failed"
        /\ MarkedIn(result[i].content[1].text) = {"Failed"}

\* the handlers of get_wallet_statement in the concise markdown mode that are
\* done, whose request was answered 2xx without errors and without a
\* transaction: the Transactions list is empty or absent
EmptyStatements ==
    { i \in Invocations :
        /\ pc[i] = "done"
        /\ tool[i] = "get_wallet_statement"
        /\ args[i].format = "markdown" /\ args[i].detail = "concise"
        /\ Len(got[i]) = 1
        /\ Ok(got[i][1]) /\ NoErrors(got[i][1])
        /\ (Has(got[i][1].body.json, "Transactions")
               => got[i][1].body.json.Transactions = <<>>) }

\* C18: get_wallet_statement in the concise markdown mode returns exactly
\* 'No transactions found for this period', not flagged as an error, whenever
\* upstream answers 2xx with no error list and no transaction, whatever the
\* year, month and currency asked for
C18_EmptyStatement ==
    \A i \in EmptyStatements :
        /\ result[i].content[1].text = Lit("No transactions found for this period")
        /\ Len(result[i].content) = 1
        /\ ~IsError(result[i])

\* a statement asked for a currency was answered without a Transactions
\* property and the empty-period text was returned
C18_Witness ==
    \E i \in EmptyStatements :
        /\ Has(args[i], "currency")
        /\ ~Has(got[i][1].body.json, "Transactions")
        /\ result[i].content[1].text = Lit("No transactions found for this period")
        /\ ~IsError(result[i])

\* C19 as stated: whatever payload the client call returned, with missing
\* fields or with null list entries, the summary formatter of the handler
\* returns a text and does not throw
C19_FormattersTotal ==
    \A i \in Returned : args[i].format = "markdown" => ~formatted[i].threw

\* the tools whose handler calls one of the operations startPayment,
\* finishReservation, refundPayment, capturePayment, cancelAuthorization,
\* getPaymentState, getStatement, getUserHistory, withdraw, sendMoney
RequestTools ==
    {"start_payment", "finish_reservation", "refund_payment", "capture_payment",
     "cancel_authorization", "get_payment_state", "get_wallet_statement",
     "get_user_history", "withdraw_to_bank", "send_money"}

\* the request fields the caller supplied: the arguments but format and detail
Supplied(i) == DOMAIN args[i] \ {"format", "detail"}

\* where a request field is found in the outbound data: the upstream names
\* from the top of the body or query down to the value
UpstreamName(t, f) ==
    CASE f = "accountNumber" -> <<"BankAccount", "AccountNumber">>
      [] f = "accountHolderName" -> <<"BankAccount", "AccountHolderName">>
      [] f = "swift" -> <<"BankAccount", "Swift">>
      [] f = "recipientEmail" -> <<"TargetEmail">>
      [] f = "sourceAccountId" -> <<"SourceAccountId">>
      [] f = "currency" /\ t = "send_money" -> <<"Amount", "Currency">>
      [] f = "amount" /\ t = "send_money" -> <<"Amount", "Value">>
      [] f = "amount" /\ t = "refund_payment" -> <<"AmountToRefund">>
      [] f = "amount" -> <<"Amount">>
      [] f = "currency" -> <<"Currency">>
      [] f = "comment" -> <<"Comment">>
      [] f = "paymentId" -> <<"PaymentId">>
      [] f = "transactionId" -> <<"TransactionId">>
      [] f = "transactions" -> <<"Transactions">>
      [] f = "paymentType" -> <<"PaymentType">>
      [] f = "paymentRequestId" -> <<"PaymentRequestId">>
      [] f = "redirectUrl" -> <<"RedirectUrl">>
      [] f = "callbackUrl" -> <<"CallbackUrl">>
      [] f = "year" -> <<"Year">>
      [] f = "month" -> <<"Month">>
      [] f = "lastRequestTime" -> <<"LastRequestTime">>
      [] f = "lastVisibleItemId" -> <<"LastVisibleItemId">>
      [] f = "limit" -> <<"Limit">>

\* the upstream names of the fields of a transaction and of an item
EntryName ==
    [transactionId |-> "TransactionId", total |-> "Total",
     posTransactionId |-> "POSTransactionId", payee |-> "Payee",
     items |-> "Items", name |-> "Name", description |-> "Description",
     quantity |-> "Quantity", unit |-> "Unit", unitPrice |-> "UnitPrice",
     itemTotal |-> "ItemTotal"]

\* every field of the entries of a list is held, under its upstream name and
\* with the same value, by the entry at the same place of the outbound list,
\* and the outbound entry holds nothing else
SameEntries(list, outbound) ==
    LET SameFlat(e, o) ==
            /\ DOMAIN o = {EntryName[f] : f \in DOMAIN e}
            /\ \A f \in DOMAIN e \ {"items"} : o[EntryName[f]] = e[f]
    IN  /\ Len(outbound) = Len(list)
        /\ \A k \in 1..Len(list) :
              /\ SameFlat(list[k], outbound[k])
              /\ Has(list[k], "items") =>
                    /\ Len(outbound[k].Items) = Len(list[k].items)
                    /\ \A m \in 1..Len(list[k].items) :
                          SameFlat(list[k].items[m], outbound[k].Items[m])

\* the data of an outbound request: its JSON body or its query parameters
Outbound(r) == IF r.method = "GET" THEN r.query ELSE r.body

\* the outbound data holds a value under the names of a path
HasAt(data, path) ==
    /\ Has(data, path[1])
    /\ Len(path) = 2 => Has(data[path[1]], path[2])

At(data, path) == IF Len(path) = 2 THEN data[path[1]][path[2]] ELSE data[path[1]]

\* the request field f with value v is in the request r under its upstream
\* name and with its value: a number of a query is written in decimal
SentAs(t, r, f, v) ==
    LET path == UpstreamName(t, f)
        data == Outbound(r)
    IN  /\ HasAt(data, path)
        /\ IF f = "transactions" THEN SameEntries(v, At(data, path))
           ELSE IF r.method = "GET" /\ path[1] \in NumericParams
           THEN At(data, path) = ToString(v)
           ELSE At(data, path) = v

\* the requests of the operation of a handler: every request it sent but the
\* account list send_money asks for
OperationRequests(i) ==
    IF tool[i] \in RequestTools
    THEN {k \in 1..Len(sent[i]) : sent[i][k].endpoint # "/v2/accounts"}
    ELSE {}

\* different request fields of a tool have different upstream names
DistinctNames ==
    \A i \in Invocations : OperationRequests(i) # {} =>
        \A f \in Supplied(i) : \A g \in Supplied(i) \ {f} :
            UpstreamName(tool[i], f) # UpstreamName(tool[i], g)

\* C20 as stated: every request field the caller supplied is in the outbound
\* request of the operation under one upstream name with its value
\* unchanged, and different fields have different names
C20_EverySuppliedFieldSent ==
    /\ DistinctNames
    /\ \A i \in Invocations : \A k \in OperationRequests(i) :
          \A f \in Supplied(i) : SentAs(tool[i], sent[i][k], f, args[i][f])

\* the optional text fields an operation tests for truthiness before it
\* uses them
TestedFields == {"lastRequestTime", "lastVisibleItemId", "sourceAccountId",
                 "paymentRequestId"}

\* C20: every supplied request field is in the outbound request of the
\* operation under one upstream name with its value unchanged, and different
\* fields have different names, except that limit is sent as
\* min(limit, 20) and that an empty lastRequestTime, lastVisibleItemId,
\* sourceAccountId or paymentRequestId is not sent as supplied: the first
\* two are left out, the other two are replaced by a value of the client
C20_SuppliedFieldSentUnlessEmpty ==
    /\ DistinctNames
    /\ \A i \in Invocations : \A k \in OperationRequests(i) :
          \A f \in Supplied(i) :
              LET r == sent[i][k]
                  v == args[i][f]
              IN  IF f \in TestedFields /\ v = ""
                  THEN ~SentAs(tool[i], r, f, v)
                  ELSE IF f = "limit" THEN SentAs(tool[i], r, f, Min(v, 20))
                  ELSE SentAs(tool[i], r, f, v)

\* get_user_history sent its four query parameters, and the limit in decimal
C20_Witness ==
    \E i \in Invocations : \E k \in OperationRequests(i) :
        /\ tool[i] = "get_user_history"
        /\ Supplied(i) = {"lastRequestTime", "lastVisibleItemId", "limit", "currency"}
        /\ DOMAIN Outbound(sent[i][k])
              = {"LastRequestTime", "LastVisibleItemId", "Limit", "Currency"}
        /\ Outbound(sent[i][k]).Limit = "20"

\* every request sent so far, by any handler
Requests == {<<i, k>> \in Invocations \X (1..2) : k <= Len(sent[i])}

\* the properties of a wallet body or query whose value is a text
TextParams ==
    {"Currency", "Comment", "TargetEmail", "SourceAccountId", "LastRequestTime",
     "LastVisibleItemId", "Year", "Month", "Limit"}

\* C21: every request of the payment client carries the configured POSKey as
\* a property of its JSON body (POST) or of its query (GET), whatever the
\* payload of the operation, and no X-API-Key header; every request of the
\* wallet client carries the configured API key in the X-API-Key header, and
\* neither a POSKey nor the API key in its body or query
C21_CredentialPlacement ==
    \A c \in Requests :
        LET r == sent[c[1]][c[2]]
            data == Outbound(r)
        IN  IF r.client = "payment"
            THEN /\ Has(data, "POSKey") /\ data.POSKey = POSKEY
                 /\ ~Has(r.headers, "X-API-Key")
                 /\ r.method = "POST" <=> Has(r, "body")
                 /\ r.method = "GET" <=> Has(r, "query")
            ELSE /\ Has(r.headers, "X-API-Key")
                 /\ r.headers["X-API-Key"] = API_KEY
                 /\ ~Has(data, "POSKey") /\ ~Has(data, "X-API-Key")
                 /\ \A f \in DOMAIN data \cap TextParams : data[f] # API_KEY

\* get_payment_state sent its GET request with the POSKey beside the
\* PaymentId in the query
C21_Witness ==
    \E c \in Requests :
        LET r == sent[c[1]][c[2]]
        IN  /\ r.client = "payment"
            /\ r.method = "GET"
            /\ r.query = [POSKey |-> POSKEY, PaymentId |-> args[c[1]].paymentId]

\* neither credential was supplied: no option and no variable gives a POSKey
\* or an API key that is not empty
NoCredential ==
    /\ ~Truthy(proc.argv, "poskey") /\ ~Truthy(proc.environ, "BARION_POS_KEY")
    /\ ~Truthy(proc.argv, "apiKey") /\ ~Truthy(proc.environ, "BARION_API_KEY")

\* C22: when neither a POSKey nor an API key is supplied by option or by
\* environment variable, the process writes the fixed error message and exits
\* with status 1, with no tool registered and the transport not connected;
\* when a credential is supplied the process does not exit there: it goes on
\* to register tools and to connect
C22_ExitWithoutCredential ==
    /\ (NoCredential /\ proc.stage # "entered") =>
          /\ proc.stage = "exited" /\ proc.exited /\ proc.status = 1
          /\ Last(proc.stderr) = CredentialError
          /\ proc.catalog = {} /\ proc.clients = NoFields
          /\ ~proc.connected
    /\ ~NoCredential =>
          /\ CredentialError \notin {proc.stderr[k] : k \in 1..Len(proc.stderr)}
          /\ proc.stage \in {"configured", "connected"} => proc.catalog # {}
          /\ proc.connected => proc.stage = "connected"
          /\ proc.exited => (proc.stage = "exited" /\ proc.catalog # {}
                             /\ Last(proc.stderr).text = "Fatal error:")

\* no credential was supplied and the process has exited with status 1
C22_Witness ==
    /\ NoCredential
    /\ Has(proc.environ, "BARION_POS_KEY")
    /\ proc.exited /\ proc.status = 1
    /\ Last(proc.stderr) = CredentialError

\* the environment setting of the process: the --environment option, else
\* the BARION_ENVIRONMENT variable when it is not empty, else nothing
Setting ==
    IF Truthy(proc.argv, "environment") THEN proc.argv.environment
    ELSE IF Truthy(proc.environ, "BARION_ENVIRONMENT")
    THEN proc.environ.BARION_ENVIRONMENT
    ELSE "undefined"

\* the clients constructed so far
Clients == {proc.clients[c] : c \in DOMAIN proc.clients}

\* C26: the clients send every request to https://api.barion.com if and only
\* if the environment setting is exactly 'prod'; for 'test', for an absent
\* setting and for any other value of BARION_ENVIRONMENT every request goes
\* to https://api.test.barion.com; the payment client and the wallet client
\* of a process have the same environment
C26_BaseUrlBySetting ==
    LET production == "https://api.barion.com"
        testing == "https://api.test.barion.com"
    IN  /\ \A c \in Clients :
              /\ c.baseUrl = IF Setting = "prod" THEN production ELSE testing
              /\ c.environment = env
        /\ \A c \in Clients : \A d \in Clients : c.environment = d.environment
        /\ \A r \in Requests :
              sent[r[1]][r[2]].url =
                  (IF Setting = "prod" THEN production ELSE testing)
                  \o sent[r[1]][r[2]].endpoint

\* BARION_ENVIRONMENT is 'production', both clients exist and a request went
\* to the test host
C26_Witness ==
    /\ Setting = "production"
    /\ DOMAIN proc.clients = {"payment", "wallet"}
    /\ \E r \in Requests :
          sent[r[1]][r[2]].url = "https://api.test.barion.com" \o sent[r[1]][r[2]].endpoint

\* the invocations of get_user_history that supply none of lastRequestTime,
\* lastVisibleItemId and currency
Unanchored ==
    { i \in Invocations :
        /\ tool[i] = "get_user_history"
        /\ ~Has(args[i], "lastRequestTime")
        /\ ~Has(args[i], "lastVisibleItemId")
        /\ ~Has(args[i], "currency") }

LocalError ==
    Lit("At least one parameter (lastRequestTime, lastVisibleItemId, "
        \o "or currency) must be provided")

\* the handler failed with the local error and sent nothing
FailedLocally(i) ==
    /\ pc[i] = "done"
    /\ call[i].threw /\ call[i].message = LocalError
    /\ IsError(result[i])
    /\ sent[i] = <<>> /\ got[i] = <<>>

\* C23 as stated: an invocation of get_user_history that supplies none of
\* lastRequestTime, lastVisibleItemId and currency, also one that supplies
\* only limit, fails with the local 'At least one parameter ...' error and
\* issues no request
C23_AnchorRequired ==
    \A i \in Unanchored : FailedLocally(i)

\* the calls of get_user_history that ask for more than 20 entries
OverLimit ==
    { i \in Invocations :
        /\ tool[i] = "get_user_history"
        /\ Has(args[i], "limit") /\ args[i].limit > 20 }

\* C24 as stated: a call of get_user_history with a limit above 20 is not
\* rejected and its request carries Limit = 20; a limit from 1 to 20 is
\* forwarded unchanged; the Limit of a request is never above 20
C24_LimitCappedNotRejected ==
    /\ \A i \in OverLimit :
          /\ pc[i] # "rejected"
          /\ Len(sent[i]) = 1 /\ sent[i][1].query.Limit = "20"
    /\ \A i \in Invocations :
          (tool[i] = "get_user_history" /\ Has(args[i], "limit")
             /\ args[i].limit \in 1..20 /\ pc[i] # "done") =>
              /\ Len(sent[i]) = 1
              /\ sent[i][1].query.Limit = ToString(args[i].limit)

\* a handler run alone from its call to its return, as a function of the
\* tool, the arguments and the answers to its requests in order: the
\* requests it sends and the result it returns
Alone(t, a, responses) ==
    LET Finish(requests, r) ==
            LET o == Request(ClientOf(t), r)
                returned == IF o.threw THEN o ELSE MethodResult(t, a, o.value)
                f == formatResponse(returned.value, ReturnsArray(t), a.format,
                                    a.detail, FormatterOf(t))
            IN  [sent |-> requests,
                 result |-> IF returned.threw THEN ErrorResult(t, returned.message)
                            ELSE IF f.threw THEN ErrorResult(t, f.message)
                            ELSE TextResult(f.value)]
        first == FirstCall(t, a, "")
    IN  IF first.threw
        THEN [sent |-> <<>>, result |-> ErrorResult(t, first.message)]
        ELSE IF t = "send_money" /\ first.value.endpoint = "/v2/accounts"
        THEN LET o == WalletRequest(responses[1])
                 selected == IF o.threw THEN o
                             ELSE sendMoney_Select(a, getAccounts_Result(o.value))
             IN  IF selected.threw
                 THEN [sent |-> <<first.value>>,
                       result |-> ErrorResult(t, selected.message)]
                 ELSE Finish(<<first.value, selected.value>>, responses[2])
        ELSE Finish(<<first.value>>, responses[1])

\* the invocations that have returned
Done == {i \in Invocations : pc[i] = "done"}

\* what every invocation that has returned sent and returned is what its
\* handler sends and returns when run alone with the same answers
AsAlone ==
    \A i \in Done :
        LET alone == Alone(tool[i], args[i], got[i])
        IN  sent[i] = alone.sent /\ result[i] = alone.result

\* a step of one invocation leaves the other invocation as it was
OthersUntouched ==
    \A i \in Invocations : \A j \in Invocations \ {i} :
        pc'[i] # pc[i] =>
            /\ pc'[j] = pc[j] /\ tool'[j] = tool[j] /\ args'[j] = args[j]
            /\ sent'[j] = sent[j] /\ got'[j] = got[j]
            /\ outcomes'[j] = outcomes[j] /\ call'[j] = call[j]
            /\ formatted'[j] = formatted[j] /\ result'[j] = result[j]

Days == {Day(k) : k \in 1..(5 + MaxListed)}

\* the TransactionTime of the entries a text lists, in the order of the text
TimesIn(output) == SelectSeq(Words(output), LAMBDA w : w \in Days)

\* the places of a text where the line '... and <n> more transactions' begins
MoreLines(output) == {k \in 1..Len(output) : output[k].s = "\n... and "}

\* the statements formatWalletStatement was applied to
Formatted == {i \in Sequential : passes = 1 /\ tool[i] = "get_wallet_statement"}

\* C27: in concise mode formatWalletStatement lists the first min(10, N)
\* entries of the list, in list order and no other, and appends
\* '... and N-10 more transactions' exactly when N > 10; in detailed mode it
\* lists all N entries in list order
C27_FirstTenThenAll ==
    \A i \in Formatted :
        LET l == call[i].value
            N == Len(l)
            concise == args[i].detail = "concise"
            shown == IF concise THEN Min(10, N) ELSE N
            output == formatted[i].value
        IN  /\ ~formatted[i].threw
            /\ TimesIn(output) = [k \in 1..shown |-> l[k].TransactionTime]
            /\ MoreLines(output) # {} <=> (concise /\ N > 10)
            /\ \A k \in MoreLines(output) :
                  /\ k + 2 = Len(output)
                  /\ output[k + 1].s = ToString(N - 10)
                  /\ output[k + 2].s = " more transactions"

\* a statement of twelve entries was summarised: ten entries are listed and
\* the text ends with '... and 2 more transactions'
C27_Witness ==
    \E i \in Formatted :
        /\ args[i].detail = "concise"
        /\ Len(call[i].value) = 12
        /\ Len(TimesIn(formatted[i].value)) = 10
        /\ \E k \in MoreLines(formatted[i].value) : formatted[i].value[k + 1].s = "2"

\* the invocations of get_user_history whose request was answered and whose
\* client call is over
Histories ==
    { i \in Invocations :
        tool[i] = "get_user_history" /\ pc[i] = "done" /\ Len(got[i]) = 1 }

\* the UserHistory of an answer, empty when the answer has none
UserHistoryOf(r) ==
    IF Has(r.body.json, "UserHistory") THEN r.body.json.UserHistory ELSE <<>>

\* C28: getUserHistory forwards a supplied lastVisibleItemId unchanged as
\* LastVisibleItemId, and returns one entry for each item of the upstream
\* UserHistory, in the upstream order, nothing merged, dropped or moved; an
\* absent or empty UserHistory gives the empty list
C28_CursorAndOrderKept ==
    /\ \A i \in Invocations : \A k \in OperationRequests(i) :
          (tool[i] = "get_user_history" /\ Truthy(args[i], "lastVisibleItemId")) =>
              /\ Has(sent[i][k].query, "LastVisibleItemId")
              /\ sent[i][k].query.LastVisibleItemId = args[i].lastVisibleItemId
    /\ \A i \in Histories : (Ok(got[i][1]) /\ NoErrors(got[i][1])) =>
          LET items == UserHistoryOf(got[i][1])
          IN  /\ ~call[i].threw
              /\ Len(call[i].value) = Len(items)
              /\ \A k \in 1..Len(items) :
                    /\ call[i].value[k].TransactionId = items[k].Id
                    /\ call[i].value[k].TransactionTime = items[k].HappenedAtUtc
                    /\ call[i].value[k].Amount = items[k].Amount

\* a history asked for with a cursor was answered with two items, the newer
\* one second, and both were returned in that order
C28_Witness ==
    \E i \in Histories :
        /\ Truthy(args[i], "lastVisibleItemId")
        /\ sent[i][1].query.LastVisibleItemId = args[i].lastVisibleItemId
        /\ Ok(got[i][1]) /\ NoErrors(got[i][1])
        /\ Len(UserHistoryOf(got[i][1])) = 2
        /\ UserHistoryOf(got[i][1])[1].Id = "h-2"
        /\ call[i].value[1].TransactionId = "h-2"
        /\ call[i].value[2].TransactionId = "h-1"

\* a POSKey, an API key that is not empty was supplied by option or variable
PosKeySupplied ==
    Truthy(proc.argv, "poskey") \/ Truthy(proc.environ, "BARION_POS_KEY")

ApiKeySupplied ==
    Truthy(proc.argv, "apiKey") \/ Truthy(proc.environ, "BARION_API_KEY")

\* C29: once the tools are configured the catalog holds the six payment
\* tools if and only if a POSKey that is not empty was supplied, and the six
\* wallet tools if and only if an API key that is not empty was supplied;
\* the catalog of a connected server is not empty, every tool of the catalog
\* has its client and every client has a key that is not empty; before that
\* the catalog is empty
C29_CatalogByCredential ==
    IF proc.stage \in {"configured", "connected"}
       \/ (proc.stage = "exited" /\ ~NoCredential)
    THEN /\ proc.catalog \cap PaymentTools
               = IF PosKeySupplied THEN PaymentTools ELSE {}
         /\ proc.catalog \cap WalletTools
               = IF ApiKeySupplied THEN WalletTools ELSE {}
         /\ proc.catalog \subseteq Tools
         /\ proc.catalog # {}
         /\ \A t \in proc.catalog : Has(proc.clients, ClientOf(t))
         /\ \A c \in Clients : c.key \in {POSKEY, API_KEY}
         /\ Has(proc.clients, "payment") => proc.clients.payment.key = POSKEY
         /\ Has(proc.clients, "wallet") => proc.clients.wallet.key = API_KEY
         /\ \A i \in Invocations : tool[i] # "none" => tool[i] \in proc.catalog
    ELSE proc.catalog = {} /\ proc.clients = NoFields /\ ~proc.connected

\* the server is connected with the wallet tools alone: the POSKey option
\* was given without a value and no variable supplies one
C29_Witness ==
    /\ proc.stage = "connected"
    /\ Has(proc.argv, "poskey") /\ ~PosKeySupplied
    /\ proc.catalog = WalletTools
    /\ DOMAIN proc.clients = {"wallet"}

\* C30: a tool declared read-only sends only GET requests, in every
\* invocation; a POST request is sent only by a tool that is not declared
\* read-only, and every tool that is not read-only ends with a POST
C30_ReadOnlyToolsOnlyGet ==
    \A c \in Requests :
        LET r == sent[c[1]][c[2]]
            t == tool[c[1]]
        IN  /\ t \in ReadOnlyTools => (r.method = "GET" /\ ~Has(r, "body"))
            /\ r.method = "POST" => t \in Tools \ ReadOnlyTools
            /\ r.method \in {"GET", "POST"}
            /\ (t \notin ReadOnlyTools /\ r.method = "GET") =>
                  (t = "send_money" /\ r.endpoint = "/v2/accounts" /\ c[2] = 1)

\* a read-only tool of either client has returned a text after its one GET
\* request
C30_Witness ==
    \E i \in Invocations :
        /\ tool[i] \in {"get_wallet_balance", "get_payment_state"}
        /\ pc[i] = "done"
        /\ ~IsError(result[i])
        /\ Len(sent[i]) = 1
        /\ sent[i][1].method = "GET"

====
